---------------------------- MODULE Spec2Model ----------------------------
(***************************************************************************)
(* paintelf: the binary layout engine (write domain, symbol and relocation *)
(* synthesis), the ELF container reader/writer and the read domain.        *)
(*                                                                         *)
(* Bytes are naturals 0..255, strings and buffers are sequences of bytes.  *)
(* A "w" below is the pair [ctx, domain]: the heap writer (WriteCtxImpl)   *)
(* and the ElfWriteDomain that a serialization pass threads through every  *)
(* handler.                                                                *)
(***************************************************************************)
EXTENDS Integers, Sequences, FiniteSets, TLC

VARIABLES
    ctx,                \* WriteCtxImpl: blocks, block stack, token references
    domain,             \* ElfWriteDomain
    ops,                \* the write-domain calls made so far on the root block
    pc,                 \* position in reassemble_elf_container
    result_buffer,      \* ctx.to_buffer's output
    block_offsets,      \* resolved offset of every block
    symtab,             \* write_symtab: the .symtab image
    strtab,             \* write_symtab: the .strtab image
    last_local_symbol,  \* write_symtab: last_local_symbol
    symbol_indices,     \* write_symtab: resolved offset -> symbol index
    rela_rodata,        \* write_relocations: the .rela.rodata image
    reader,             \* the Cursor the read domain reads from
    read_domain,        \* ElfReadDomain
    frames,             \* the running read_vec / read_box_nullable calls; the receiver or
                        \* the arguments of a call made on its own
    returned,           \* the most recent return
    input_file,         \* the bytes of the sample ELF
    elf_file,           \* ElfContainer::from_reader of the sample
    out_elf,            \* to_bytes of the parsed container
    data,               \* the typed records read from the sample
    final_elf_bytes,    \* the file rebuilt from the records
    data_again          \* the typed records read from the rebuilt file

wvars == <<ctx, domain, ops, pc, result_buffer, block_offsets, symtab, strtab,
           last_local_symbol, symbol_indices, rela_rodata>>

rvars == <<reader, read_domain, frames, returned>>

tvars == <<input_file, elf_file, out_elf, data, final_elf_bytes, data_again>>

vars == <<wvars, rvars, tvars>>

-----------------------------------------------------------------------------
(* Bounds of the model                                                      *)

\* top-level write-domain calls per serialization pass
MaxOps == 2

-----------------------------------------------------------------------------
(* Bytes and integers                                                       *)

Last(s) == s[Len(s)]
Front(s) == SubSeq(s, 1, Len(s) - 1)

Zeros(n) == [i \in 1..n |-> 0]

Pow2(n) == 2 ^ n

\* byteorder::WriteBytesExt::write_u32::<BigEndian>
U32BE(n) == << (n \div 16777216) % 256, (n \div 65536) % 256, (n \div 256) % 256, n % 256 >>

\* byteorder::WriteBytesExt::write_u16::<BigEndian>
U16BE(n) == << (n \div 256) % 256, n % 256 >>

\* byteorder::ReadBytesExt::read_u32::<BigEndian> of the four bytes at 0-based offset pos
ReadU32BE(buf, pos) ==
    buf[pos + 1] * 16777216 + buf[pos + 2] * 65536 + buf[pos + 3] * 256 + buf[pos + 4]

ReadU16BE(buf, pos) == buf[pos + 1] * 256 + buf[pos + 2]

\* bitwise or of two u32 values below 2^31 (every value the model handles)
BitOr32(a, b) ==
    LET f[i \in 0..31] ==
            IF i = 31 THEN 0
            ELSE LET ba == (a \div Pow2(i)) % 2
                     bb == (b \div Pow2(i)) % 2
                 IN  (IF ba + bb > 0 THEN Pow2(i) ELSE 0) + f[i + 1]
    IN  f[0]

\* the next multiple of n at or after pos (n = 0 and n = 1 demand nothing)
AlignUp(pos, n) == IF n <= 1 THEN pos ELSE ((pos + n - 1) \div n) * n

\* overwrite buf at 0-based offset pos with bs (a Cursor write inside the buffer)
Overwrite(buf, pos, bs) ==
    [i \in 1..Len(buf) |-> IF i > pos /\ i <= pos + Len(bs) THEN bs[i - pos] ELSE buf[i]]

\* stable insertion of x into a sorted sequence: x goes right after the last
\* element it is not less than
InsertSorted(sorted, x, less(_, _)) ==
    LET keep == {j \in 1..Len(sorted) : ~less(x, sorted[j])}
        j == IF keep = {} THEN 0 ELSE CHOOSE m \in keep : \A k \in keep : k <= m
    IN  SubSeq(sorted, 1, j) \o <<x>> \o SubSeq(sorted, j + 1, Len(sorted))

\* slice::sort_by (stable; an insertion sort for the short slices handled here)
SortBy(s, less(_, _)) ==
    LET f[i \in 0..Len(s)] == IF i = 0 THEN <<>> ELSE InsertSorted(f[i - 1], s[i], less)
    IN  f[Len(s)]

\* lexicographic "less than" on byte strings (str::cmp)
StrLess(a, b) ==
    \E k \in 1..(Len(b)) :
        /\ \A i \in 1..(k - 1) : i <= Len(a) /\ a[i] = b[i]
        /\ (k > Len(a) \/ (k <= Len(a) /\ a[k] < b[k]))
        /\ k - 1 <= Len(a)

-----------------------------------------------------------------------------
(* SymbolName, SymbolDeclaration, RelDeclaration (lib.rs)                   *)

SymNone == [kind |-> "None", ch |-> 0, s |-> <<>>]
Internal(c) == [kind |-> "Internal", ch |-> c, s |-> <<>>]
InternalNamed(s) == [kind |-> "InternalNamed", ch |-> 0, s |-> s]
InternalUnmangled(s) == [kind |-> "InternalUnmangled", ch |-> 0, s |-> s]
Unmangled(s) == [kind |-> "Unmangled", ch |-> 0, s |-> s]
\* Option<SymbolName>::None: the caller supplies no symbol name
NoName == [kind |-> "absent", ch |-> 0, s |-> <<>>]

is_internal(name) == name.kind \in {"Internal", "InternalNamed", "InternalUnmangled"}

\* SymbolName::as_str is Some exactly for these kinds
has_str(name) == name.kind \in {"InternalNamed", "InternalUnmangled", "Unmangled"}

SymbolDeclaration(name, offset, size) == [name |-> name, offset |-> offset, size |-> size]

RelDeclaration(base, target) == [base_location |-> base, target_location |-> target]

-----------------------------------------------------------------------------
(* The heap/block writer the write domain drives (vivibin's WriteCtxImpl)   *)

HeapToken(block, offset) == [block |-> block, offset |-> offset]

\* WriteCtxImpl::new: one root block, which is the current block
NewCtx == [blocks |-> << [align |-> 0, bytes |-> <<>>] >>, stack |-> <<1>>, refs |-> <<>>]

current_block(c) == Last(c.stack)

\* offset within the current block
position(c) == Len(c.blocks[current_block(c)].bytes)

heap_token_at_current_pos(c) == HeapToken(current_block(c), position(c))

write_bytes(c, bs) ==
    [c EXCEPT !.blocks[current_block(c)].bytes = @ \o bs]

\* write_token::<4>: four placeholder bytes and a back-patch request (slot -> token)
write_token(c, token) ==
    [write_bytes(c, Zeros(4)) EXCEPT
        !.refs = Append(@, [block |-> current_block(c), pos |-> position(c), token |-> token])]

write_c_str(c, value) == write_bytes(c, value \o <<0>>)

align_to(c, n) == write_bytes(c, Zeros(AlignUp(position(c), n) - position(c)))

\* allocate_next_block_aligned, up to the call of its body: the new block is
\* registered (blocks are ordered by call) and becomes the current block
enter_block(c, alignment) ==
    [c EXCEPT !.blocks = Append(@, [align |-> alignment, bytes |-> <<>>]),
              !.stack = Append(@, Len(c.blocks) + 1)]

\* allocate_next_block_aligned, after its body: back to the parent block
leave_block(c) == [c EXCEPT !.stack = Front(@)]

\* HeapToken::resolve
resolve(token, offsets) == offsets[token.block] + token.offset

\* Ord for HeapToken: by block, then by offset within the block
token_less(t1, t2) ==
    t1.block < t2.block \/ (t1.block = t2.block /\ t1.offset < t2.offset)

\* finalization that packs the blocks without alignment padding
layout_packed(blocks) ==
    LET f[i \in 1..Len(blocks)] ==
            IF i = 1 THEN 0 ELSE f[i - 1] + Len(blocks[i - 1].bytes)
    IN  [i \in 1..Len(blocks) |-> f[i]]

\* finalization: each block's absolute offset, walking the blocks in registration
\* order and aligning each to the alignment it demanded
layout(blocks) ==
    LET f[i \in 1..Len(blocks)] ==
            IF i = 1 THEN 0
            ELSE AlignUp(f[i - 1] + Len(blocks[i - 1].bytes), blocks[i].align)
    IN  [i \in 1..Len(blocks) |-> f[i]]

\* the blocks concatenated in order, zero-padded for each block's alignment
concat_blocks(blocks, offsets) ==
    LET f[i \in 0..Len(blocks)] ==
            IF i = 0 THEN <<>>
            ELSE LET prev == f[i - 1]
                 IN  prev \o Zeros(offsets[i] - Len(prev)) \o blocks[i].bytes
    IN  f[Len(blocks)]

-----------------------------------------------------------------------------
(* The write domain: ElfWriteDomain (binutil.rs)                            *)

\* HashMap::insert
map_insert(m, k, v) == [x \in (DOMAIN m) \cup {k} |-> IF x = k THEN v ELSE m[x]]

\* ElfWriteDomain::new
NewDomain(string_dedup_size, apply_debug_relocations) ==
    [string_map |-> <<>>,
     symbol_declarations |-> <<>>,
     relocations |-> <<>>,
     string_dedup_size |-> string_dedup_size,
     apply_debug_relocations |-> apply_debug_relocations,
     prev_string_len |-> 0]

put_symbol(d, symbol) == [d EXCEPT !.symbol_declarations = Append(@, symbol)]

put_relocation(d, relocation) == [d EXCEPT !.relocations = Append(@, relocation)]

\* WriteDomainExt::write_fallback::<u32>
write_fallback_u32(w, v) == [w EXCEPT !.ctx = write_bytes(@, U32BE(v))]

\* string_hit without the cutoff test: any interned string is shared
string_hit_any_position(c, d, value, args) ==
    /\ args.deduplicate
    /\ value \in DOMAIN d.string_map

\* does this write_string call find an existing allocation to share?
string_hit(c, d, value, args) ==
    /\ args.deduplicate
    /\ position(c) < d.string_dedup_size
    /\ value \in DOMAIN d.string_map

\* an alignment that looks at this string only
string_alignment_this_only(prev_string_len, value) ==
    IF Len(value) <= 1 THEN 0 ELSE 4

\* the alignment a new string block demands
string_alignment(prev_string_len, value) ==
    IF prev_string_len <= 2 /\ Len(value) <= 1 THEN 0 ELSE 4

write_string(w, value, args) ==
    LET c == w.ctx
        d == w.domain
    IN  IF string_hit(c, d, value, args)
        THEN [w EXCEPT !.ctx = write_token(c, d.string_map[value])]
        ELSE LET alignment == string_alignment(d.prev_string_len, value)
                 d1 == IF args.deduplicate
                       THEN [d EXCEPT !.prev_string_len = Len(value)]
                       ELSE d
                 c1 == enter_block(c, alignment)
                 new_token == HeapToken(current_block(c1), 0)
                 start_pos == position(c1)
                 c2 == write_c_str(c1, value)
                 c3 == IF Len(value) > 2 THEN align_to(c2, 4) ELSE c2
                 name_size == position(c3) - start_pos
                 c4 == leave_block(c3)
                 d2 == put_symbol(d1, SymbolDeclaration(Internal(46), new_token, name_size))
                 d3 == IF args.deduplicate
                       THEN [d2 EXCEPT !.string_map = map_insert(@, value, new_token)]
                       ELSE d2
             IN  [ctx |-> write_token(c4, new_token), domain |-> d3]

\* write_string_optional emitting a pointer slot (to the root block) for None
write_string_optional_null_token(w, value, args) ==
    IF ~value.some
    THEN [w EXCEPT !.ctx = write_token(@, HeapToken(1, 0))]
    ELSE write_string(w, value.v, args)

\* value: [some |-> BOOLEAN, v |-> string], an Option<&str>
write_string_optional(w, value, args) ==
    IF ~value.some
    THEN write_fallback_u32(w, 0)
    ELSE write_string(w, value.v, args)

(***************************************************************************)
(* A write_content callback is the sequence of write-domain calls it makes *)
(* (an op is one call with its arguments); exec runs one call, exec_all a  *)
(* callback body.                                                          *)
(***************************************************************************)
Op(kind, val, dedup, symbol_name, bodies, default_body, word) ==
    [op |-> kind, value |-> val, deduplicate |-> dedup, name |-> symbol_name,
     content |-> bodies, dflt |-> default_body, v |-> word]

NoStr == [some |-> FALSE, v |-> <<>>]
SomeStr(s) == [some |-> TRUE, v |-> s]

OpU32(v) == Op("write_fallback", NoStr, FALSE, NoName, <<>>, <<>>, v)
OpString(s, deduplicate) == Op("write_string", SomeStr(s), deduplicate, NoName, <<>>, <<>>, 0)
OpStringOptional(value, deduplicate) ==
    Op("write_string_optional", value, deduplicate, NoName, <<>>, <<>>, 0)
OpBox(name, content) == Op("write_box", NoStr, FALSE, name, <<content>>, <<>>, 0)
OpSlice(values, name) == Op("write_slice", NoStr, FALSE, name, values, <<>>, 0)
OpNullTerminatedSlice(values, name, dflt) ==
    Op("write_null_terminated_slice", NoStr, FALSE, name, values, dflt, 0)
OpSymbol(symbol_name, content) ==
    Op("write_symbol", NoStr, FALSE, Unmangled(symbol_name), <<content>>, <<>>, 0)

RECURSIVE exec(_, _)
RECURSIVE exec_all(_, _)
RECURSIVE exec_each(_, _)

write_box(w, args, write_content) ==
    LET c1 == enter_block(w.ctx, 4)
        token == HeapToken(current_block(c1), 0)
        start_pos == position(c1)
        w2 == exec_all([w EXCEPT !.ctx = c1], write_content)
        links_size == position(w2.ctx) - start_pos
        c3 == write_token(leave_block(w2.ctx), token)
    IN  [ctx |-> c3,
         domain |-> IF args # NoName
                    THEN put_symbol(w2.domain, SymbolDeclaration(args, token, links_size))
                    ELSE w2.domain]

\* values: one callback body per element (write_content applied to that element)
\* write_slice that writes the count before the token
write_slice_count_first(w, values, args) ==
    LET c1 == enter_block(w.ctx, 4)
        token == HeapToken(current_block(c1), 0)
        start_pos == position(c1)
        w2 == exec_each([w EXCEPT !.ctx = c1], values)
        links_size == position(w2.ctx) - start_pos
        c3 == write_bytes(leave_block(w2.ctx), U32BE(Len(values)))
        c4 == write_token(c3, token)
    IN  [ctx |-> c4,
         domain |-> IF args # NoName
                    THEN put_symbol(w2.domain, SymbolDeclaration(args, token, links_size))
                    ELSE w2.domain]

write_slice(w, values, args) ==
    LET c1 == enter_block(w.ctx, 4)
        token == HeapToken(current_block(c1), 0)
        start_pos == position(c1)
        w2 == exec_each([w EXCEPT !.ctx = c1], values)
        links_size == position(w2.ctx) - start_pos
        c3 == write_token(leave_block(w2.ctx), token)
        c4 == write_bytes(c3, U32BE(Len(values)))
    IN  [ctx |-> c4,
         domain |-> IF args # NoName
                    THEN put_symbol(w2.domain, SymbolDeclaration(args, token, links_size))
                    ELSE w2.domain]

\* a null-terminated slice written without its terminating default element
write_null_terminated_slice_no_sentinel(w, values, args, dflt) ==
    LET c1 == enter_block(w.ctx, 4)
        token == HeapToken(current_block(c1), 0)
        start_pos == position(c1)
        w2 == exec_each([w EXCEPT !.ctx = c1], values)
        links_size == position(w2.ctx) - start_pos
        c3 == write_token(leave_block(w2.ctx), token)
    IN  [ctx |-> c3,
         domain |-> IF args.symbol_name # NoName
                    THEN put_symbol(w2.domain,
                                    SymbolDeclaration(args.symbol_name, token, links_size))
                    ELSE w2.domain]

\* dflt: the callback body of write_content(&T::default())
write_null_terminated_slice(w, values, args, dflt) ==
    LET c1 == enter_block(w.ctx, 4)
        token == HeapToken(current_block(c1), 0)
        start_pos == position(c1)
        w2 == exec_all(exec_each([w EXCEPT !.ctx = c1], values), dflt)
        links_size == position(w2.ctx) - start_pos
        c3 == write_token(leave_block(w2.ctx), token)
    IN  [ctx |-> c3,
         domain |-> IF args.symbol_name # NoName
                    THEN put_symbol(w2.domain,
                                    SymbolDeclaration(args.symbol_name, token, links_size))
                    ELSE w2.domain]

write_symbol(w, symbol_name, content_callback) ==
    LET token == heap_token_at_current_pos(w.ctx)
        start_offset == position(w.ctx)
        w2 == exec_all(w, content_callback)
        size == position(w2.ctx) - start_offset
    IN  [w2 EXCEPT !.domain =
            put_symbol(@, SymbolDeclaration(Unmangled(symbol_name), token, size))]

exec(w, o) ==
    CASE o.op = "write_fallback" -> write_fallback_u32(w, o.v)
      [] o.op = "write_string" -> write_string(w, o.value.v, [deduplicate |-> o.deduplicate])
      [] o.op = "write_string_optional" ->
            write_string_optional(w, o.value, [deduplicate |-> o.deduplicate])
      [] o.op = "write_box" -> write_box(w, o.name, o.content[1])
      [] o.op = "write_slice" -> write_slice(w, o.content, o.name)
      [] o.op = "write_null_terminated_slice" ->
            write_null_terminated_slice(w, o.content, [symbol_name |-> o.name], o.dflt)
      [] o.op = "write_symbol" -> write_symbol(w, o.name.s, o.content[1])

\* the calls of a callback body run in order, each on the state the previous
\* one left (the state of a step is a value before the next step starts)
exec_all(w, body) ==
    IF body = <<>> THEN w
    ELSE CHOOSE done \in {exec_all(next, Tail(body)) : next \in {exec(w, Head(body))}} : TRUE

exec_each(w, values) ==
    IF values = <<>> THEN w
    ELSE CHOOSE done \in {exec_each(next, Tail(values)) : next \in {exec_all(w, Head(values))}} : TRUE

\* write_pointer_debug without the 0x70000000 tag
write_pointer_debug_untagged(value) == U32BE(value)

\* ElfWriteDomain::write_pointer_debug: the four bytes written at the writer's position
write_pointer_debug(value) == U32BE(BitOr32(value, 1879048192))

\* WriteDomain::apply_reference, the writer being a cursor at writer_pos over buffer
apply_reference(d, buffer, writer_pos, heap_offset) ==
    [domain |-> put_relocation(d, RelDeclaration(writer_pos, heap_offset)),
     buffer |-> IF d.apply_debug_relocations
                THEN Overwrite(buffer, writer_pos, write_pointer_debug(heap_offset))
                ELSE buffer]

\* WriteCtxImpl::to_buffer: lay the blocks out, then hand every pointer slot to
\* the domain's apply_reference with the slot's and the target's resolved offsets
to_buffer(c, d) ==
    LET offsets == layout(c.blocks)
        f[i \in 0..Len(c.refs)] ==
            IF i = 0
            THEN [domain |-> d, buffer |-> concat_blocks(c.blocks, offsets)]
            ELSE LET prev == f[i - 1]
                 IN  apply_reference(prev.domain, prev.buffer,
                                     offsets[c.refs[i].block] + c.refs[i].pos,
                                     resolve(c.refs[i].token, offsets))
        done == f[Len(c.refs)]
    IN  [buffer |-> done.buffer, domain |-> done.domain, block_offsets |-> offsets]

-----------------------------------------------------------------------------
(* Symbol and relocation synthesis (lib.rs, elf/mod.rs)                     *)

AUTO_SYMBOL_NAME_CHAR_COUNT == 93

AUTO_SYMBOL_NAME_CHARS ==
    <<97, 98, 99, 100, 101, 102, 103, 104, 105, 106, 107, 108, 109, 110, 111, 112, 113,
      114, 115, 116, 117, 118, 119, 120, 121, 122, 65, 66, 67, 68, 69, 70, 71, 72, 73,
      74, 75, 76, 77, 78, 79, 80, 81, 82, 83, 84, 85, 86, 87, 88, 89, 90, 48, 49, 50,
      51, 52, 53, 54, 55, 56, 57, 33, 64, 36, 37, 94, 38, 42, 40, 41, 95, 43, 45, 61,
      91, 93, 123, 125, 59, 39, 92, 58, 34, 124, 44, 46, 47, 60, 62, 63, 126, 96>>

\* SymbolNameGenerator::new
NewNameGen == [indices |-> <<>>, result |-> <<>>]

\* count_up_check_overflow that restarts the first character at index 0 as well
count_up_check_overflow_from_a(g, index) ==
    LET value == g.indices[index] + 1
        overflow == value >= AUTO_SYMBOL_NAME_CHAR_COUNT
        stored == IF overflow THEN 0 ELSE value
    IN  [gen |-> [indices |-> [g.indices EXCEPT ![index] = stored],
                  result |-> [g.result EXCEPT ![index] = AUTO_SYMBOL_NAME_CHARS[stored + 1]]],
         overflow |-> overflow]

\* SymbolNameGenerator::count_up_check_overflow (index is 1-based here)
count_up_check_overflow(g, index) ==
    LET value == g.indices[index] + 1
        overflow == value >= AUTO_SYMBOL_NAME_CHAR_COUNT
        stored == IF overflow /\ index = 1 THEN 1 ELSE IF overflow THEN 0 ELSE value
    IN  [gen |-> [indices |-> [g.indices EXCEPT ![index] = stored],
                  result |-> [g.result EXCEPT ![index] = AUTO_SYMBOL_NAME_CHARS[stored + 1]]],
         overflow |-> overflow]

\* SymbolNameGenerator::next: the generator after the call and the tail returned
name_gen_next(g) ==
    IF g.indices = <<>>
    THEN [gen |-> [indices |-> <<0>>, result |-> <<AUTO_SYMBOL_NAME_CHARS[1]>>],
          tail |-> <<>>]
    ELSE LET n == Len(g.indices)
             \* f[i]: the state once the loop has handled index i (done: it was left)
             f[i \in 0..n] ==
                 LET before == IF i = n THEN [gen |-> g, done |-> FALSE] ELSE f[i + 1]
                 IN  IF i = 0 \/ before.done THEN before
                     ELSE LET r == count_up_check_overflow(before.gen, i)
                          IN  IF ~r.overflow THEN [gen |-> r.gen, done |-> TRUE]
                              ELSE IF i = 1
                                   THEN [gen |-> [indices |-> Append(r.gen.indices, 0),
                                                  result |-> Append(r.gen.result,
                                                                    AUTO_SYMBOL_NAME_CHARS[1])],
                                         done |-> TRUE]
                                   ELSE [gen |-> r.gen, done |-> FALSE]
         IN  [gen |-> f[0].gen, tail |-> f[0].gen.result]

\* the indices of s, ascending, whose element satisfies P
SelectIdx(s, P(_)) ==
    LET f[i \in 0..Len(s)] ==
            IF i = 0 THEN <<>> ELSE IF P(s[i]) THEN Append(f[i - 1], i) ELSE f[i - 1]
    IN  f[Len(s)]

\* the comparator of "name unnamed internal symbols": initial char, then HeapToken
unnamed_less(sym1, sym2) ==
    \/ sym1.name.ch < sym2.name.ch
    \/ /\ sym1.name.ch = sym2.name.ch
       /\ token_less(sym1.offset, sym2.offset)

\* a naming loop with one generator for all initial characters
name_unnamed_loop_shared(decls, symbols) ==
    LET f[k \in 0..Len(symbols)] ==
            IF k = 0
            THEN [gen |-> NewNameGen, decls |-> decls]
            ELSE LET prev == f[k - 1]
                     initial_char == decls[symbols[k]].name.ch
                     n == name_gen_next(prev.gen)
                 IN  [gen |-> n.gen,
                      decls |-> [prev.decls EXCEPT ![symbols[k]].name =
                                    InternalUnmangled(<<initial_char>> \o n.tail)]]
    IN  f[Len(symbols)].decls

\* the naming loop of "name unnamed internal symbols" over the sorted references
\* (symbols holds positions in decls, the &mut SymbolDeclaration of the code)
name_unnamed_loop(decls, symbols) ==
    LET f[k \in 0..Len(symbols)] ==
            IF k = 0
            THEN [gen |-> NewNameGen, prev_initial_char |-> 0, decls |-> decls]
            ELSE LET prev == f[k - 1]
                     initial_char == decls[symbols[k]].name.ch
                     fresh == prev.prev_initial_char # initial_char
                     n == name_gen_next(IF fresh THEN NewNameGen ELSE prev.gen)
                 IN  [gen |-> n.gen,
                      prev_initial_char |-> initial_char,
                      decls |-> [prev.decls EXCEPT ![symbols[k]].name =
                                    InternalUnmangled(<<initial_char>> \o n.tail)]]
    IN  f[Len(symbols)].decls

\* write_symtab, "name unnamed internal symbols"
name_unnamed_internal(decls) ==
    name_unnamed_loop(decls,
        SortBy(SelectIdx(decls, LAMBDA sym : sym.name.kind = "Internal"),
               LAMBDA a, b : unnamed_less(decls[a], decls[b])))

\* a comparator without the special case: names compare lexicographically only
is_less_special_never(a, b) == FALSE

\* is_less_special (lib.rs, inside the comparator): a properly extends b and
\* the character of a right after the b prefix is below 'P'
is_less_special(a, b) ==
    IF Len(a) = Len(b) \/ ~(Len(a) >= Len(b) /\ SubSeq(a, 1, Len(b)) = b)
    THEN FALSE
    ELSE a[Len(b) + 1] < 80

\* a comparator that applies the special case to its first argument only
named_cmp_one_sided(name1, name2) ==
    IF is_less_special(name1, name2) THEN "Less"
    ELSE IF StrLess(name1, name2) THEN "Less"
    ELSE IF StrLess(name2, name1) THEN "Greater"
    ELSE "Equal"

\* the comparator of "name named internal symbols"
named_cmp(name1, name2) ==
    IF is_less_special(name1, name2) THEN "Less"
    ELSE IF is_less_special(name2, name1) THEN "Greater"
    ELSE IF StrLess(name1, name2) THEN "Less"
    ELSE IF StrLess(name2, name1) THEN "Greater"
    ELSE "Equal"

\* a naming loop that restarts the generator whenever the initial character changes
name_named_loop_per_initial(decls, symbols) ==
    LET f[k \in 0..Len(symbols)] ==
            IF k = 0
            THEN [gen |-> NewNameGen, prev_initial_char |-> 0, decls |-> decls]
            ELSE LET prev == f[k - 1]
                     name == decls[symbols[k]].name.s
                     fresh == prev.prev_initial_char # name[1]
                     n == name_gen_next(IF fresh THEN NewNameGen ELSE prev.gen)
                 IN  [gen |-> n.gen,
                      prev_initial_char |-> name[1],
                      decls |-> [prev.decls EXCEPT ![symbols[k]].name =
                                    InternalUnmangled(<<name[1]>> \o n.tail)]]
    IN  f[Len(symbols)].decls

\* the naming loop of "name named internal symbols" over the sorted references
name_named_loop(decls, symbols) ==
    LET f[k \in 0..Len(symbols)] ==
            IF k = 0
            THEN [gen |-> NewNameGen, decls |-> decls]
            ELSE LET prev == f[k - 1]
                     name == decls[symbols[k]].name.s
                     n == name_gen_next(prev.gen)
                 IN  [gen |-> n.gen,
                      decls |-> [prev.decls EXCEPT ![symbols[k]].name =
                                    InternalUnmangled(<<name[1]>> \o n.tail)]]
    IN  f[Len(symbols)].decls

\* write_symtab, "name named internal symbols"
name_named_internal(decls) ==
    name_named_loop(decls,
        SortBy(SelectIdx(decls, LAMBDA sym : sym.name.kind = "InternalNamed"),
               LAMBDA a, b : named_cmp(decls[a].name.s, decls[b].name.s) = "Less"))

\* binrw's big-endian image of a SymbolHeader
SymbolHeaderBytes(st_name, st_value, st_size, st_info, st_other, st_shndx) ==
    U32BE(st_name) \o U32BE(st_value) \o U32BE(st_size) \o <<st_info, st_other>>
        \o U16BE(st_shndx)

\* the write_symbol closure of write_symtab; st is [writer, strtab, symbol_count,
\* symbol_indices]
symtab_write_symbol(st, symbol, st_info, offsets) ==
    LET named == has_str(symbol.name)
        name_ptr == IF named THEN Len(st.strtab) ELSE 0
        value == resolve(symbol.offset, offsets)
    IN  [writer |-> st.writer \o SymbolHeaderBytes(name_ptr, value, symbol.size, st_info, 0, 1),
         strtab |-> IF named THEN st.strtab \o symbol.name.s \o <<0>> ELSE st.strtab,
         symbol_count |-> st.symbol_count + 1,
         symbol_indices |-> map_insert(st.symbol_indices, value, st.symbol_count)]

\* the number of all-zero info=0x10 entries between the local and the global symbols
PaddingSymbolCount == 12

\* the null, file and .rodata entries every symbol table starts with
symtab_start(initial_content) ==
    [writer |-> SymbolHeaderBytes(0, 0, 0, 0, 0, 0)
                    \o SymbolHeaderBytes(1, 0, 0, 4, 0, 65521)
                    \o SymbolHeaderBytes(0, 0, 0, 3, 0, 1),
     strtab |-> initial_content,
     symbol_count |-> 3,
     symbol_indices |-> <<>>]

\* for symbol in symbols { write_symbol(&mut writer, &mut symbol_count, symbol, st_info)?; }
symtab_write_each(st, symbols, st_info, offsets) ==
    LET f[k \in 0..Len(symbols)] ==
            IF k = 0 THEN st
            ELSE symtab_write_symbol(f[k - 1], symbols[k], st_info, offsets)
    IN  f[Len(symbols)]

\* for _ in 0..12: an entry with st_info 0x10; symbol_count is left alone
symtab_write_padding(st) ==
    LET pad[k \in 0..PaddingSymbolCount] ==
            IF k = 0 THEN st.writer
            ELSE pad[k - 1] \o SymbolHeaderBytes(0, 0, 0, 16, 0, 0)
    IN  [st EXCEPT !.writer = pad[PaddingSymbolCount]]

\* symbol_declarations.extract_if(.., |symbol| !symbol.name.is_internal())
extract_named(decls) ==
    LET named_idx == SelectIdx(decls, LAMBDA sym : ~is_internal(sym.name))
    IN  [k \in 1..Len(named_idx) |-> decls[named_idx[k]]]

\* the internal declarations left in declaration order
sort_internal_unsorted(decls, offsets) ==
    LET internal_idx == SelectIdx(decls, LAMBDA sym : is_internal(sym.name))
    IN  [k \in 1..Len(internal_idx) |-> decls[internal_idx[k]]]

\* what extract_if leaves behind, then sort_by_key(|symbol| symbol.offset.resolve(..))
sort_internal(decls, offsets) ==
    LET internal_idx == SelectIdx(decls, LAMBDA sym : is_internal(sym.name))
    IN  SortBy([k \in 1..Len(internal_idx) |-> decls[internal_idx[k]]],
               LAMBDA a, b : resolve(a.offset, offsets) < resolve(b.offset, offsets))

\* write_symtab from "start serializing" on, the declarations being named already
symtab_serialize(initial_content, offsets, named_symbols, internal_symbols) ==
    LET locals == symtab_write_each(symtab_start(initial_content), internal_symbols, 1, offsets)
        globals == symtab_write_each(symtab_write_padding(locals), named_symbols, 17, offsets)
    IN  [ok |-> TRUE,
         symtab |-> globals.writer,
         last_local_symbol |-> locals.symbol_count,
         strtab |-> globals.strtab,
         symbol_indices |-> globals.symbol_indices,
         symbol_declarations |-> internal_symbols]

\* name.chars().next().unwrap() panics on an empty InternalNamed name
empty_internal_named(decls) ==
    \E i \in 1..Len(decls) : decls[i].name.kind = "InternalNamed" /\ decls[i].name.s = <<>>

\* the two naming blocks of write_symtab
rename_symbols(decls) == name_named_internal(name_unnamed_internal(decls))

symtab_of_renamed(initial_content, offsets, renamed) ==
    symtab_serialize(initial_content, offsets, extract_named(renamed),
                     sort_internal(renamed, offsets))

write_symtab(initial_content, offsets, symbol_declarations) ==
    IF empty_internal_named(symbol_declarations)
    THEN [ok |-> FALSE, symtab |-> <<>>, last_local_symbol |-> 0, strtab |-> <<>>,
          symbol_indices |-> <<>>,
          symbol_declarations |-> name_unnamed_internal(symbol_declarations)]
    ELSE symtab_of_renamed(initial_content, offsets, rename_symbols(symbol_declarations))

\* binrw's big-endian image of a Relocation
RelocationBytes(offset, info, addend) == U32BE(offset) \o U32BE(info) \o U32BE(addend)

\* the relocation list left in the order apply_reference pushed it
sort_relocations_skipped(relocations) == relocations

\* relocations.sort_by_key(|rel| rel.base_location)
sort_relocations(relocations) ==
    SortBy(relocations, LAMBDA a, b : a.base_location < b.base_location)

\* write_relocations; the unwrap of the symbol_indices lookup panics on a miss
write_relocations(indices, relocations) ==
    LET sorted == sort_relocations(relocations)
        f[k \in 0..Len(sorted)] ==
            IF k = 0 THEN <<>>
            ELSE f[k - 1] \o RelocationBytes(sorted[k].base_location,
                                indices[sorted[k].target_location] * 256 + 1,  \* symbol_idx << 8 | 1
                                0)
    IN  IF \E k \in 1..Len(sorted) : sorted[k].target_location \notin DOMAIN indices
        THEN [ok |-> FALSE, relocations |-> sorted, bytes |-> <<>>]
        ELSE [ok |-> TRUE, relocations |-> sorted, bytes |-> f[Len(sorted)]]

-----------------------------------------------------------------------------
(* The read side: a Cursor over .rodata, ReaderGuard and ElfReadDomain       *)

\* Cursor::new(&rodata_section.content); eof_to_end is the build's std: a short
\* read_exact leaves the cursor where it was (older std) or places it at the end
\* of the input (current std)
NewReader(inner, pos, eof_to_end) == [inner |-> inner, pos |-> pos, eof_to_end |-> eof_to_end]

\* reader.seek(SeekFrom::Start(pos)) / reader.set_position(pos); a Cursor accepts
\* any position, also one past the end
seek(r, pos) == [r EXCEPT !.pos = pos]

\* reader.read_u32::<BigEndian>()
read_u32(r) ==
    IF r.pos + 4 <= Len(r.inner)
    THEN [ok |-> TRUE, value |-> ReadU32BE(r.inner, r.pos), reader |-> seek(r, r.pos + 4)]
    ELSE [ok |-> FALSE, value |-> 0,
          reader |-> IF r.eof_to_end THEN seek(r, Len(r.inner)) ELSE r]

\* ReaderGuard::new: remembers reader.stream_position()
ReaderGuard_new(r) == [start_pos |-> r.pos]

\* a guard whose drop leaves the reader where the body left it
ReaderGuard_drop_no_seek(guard, r) == r

\* Drop for ReaderGuard: self.reader.seek(SeekFrom::Start(self.start_pos))
ReaderGuard_drop(guard, r) == seek(r, guard.start_pos)

\* elf::Relocation and elf::Symbol as the read domain uses them
Relocation(offset, info, addend) == [offset |-> offset, info |-> info, addend |-> addend]
SymbolHeader(st_name, st_value, st_size, st_info, st_other, st_shndx) ==
    [st_name |-> st_name, st_value |-> st_value, st_size |-> st_size, st_info |-> st_info,
     st_other |-> st_other, st_shndx |-> st_shndx]

\* Symbol::new
Symbol(header, name) == [header |-> header, name |-> name]

\* Symbol::offset
symbol_offset(symbol) == symbol.header.st_value

\* ElfReadDomain::new: relocations is the IndexMap offset -> Relocation (a function
\* on the offsets that carry one), symbols the IndexMap name -> Symbol in
\* insertion order (a sequence, get_index(i) is element i + 1)
NewReadDomain(rodata_section, relocations, symbols) ==
    [rodata_section |-> rodata_section, relocations |-> relocations, symbols |-> symbols]

\* util::read_string: the bytes of buffer from index up to the next NUL; fails
\* when index lies past the buffer or no NUL follows
util_read_string(buffer, index) ==
    IF index <= Len(buffer) /\ \E i \in (index + 1)..Len(buffer) : buffer[i] = 0
    THEN LET e == CHOOSE i \in (index + 1)..Len(buffer) :
                      /\ buffer[i] = 0
                      /\ \A j \in (index + 1)..(i - 1) : buffer[j] # 0
         IN  [ok |-> TRUE, value |-> SubSeq(buffer, index + 1, e - 1)]
    ELSE [ok |-> FALSE, value |-> <<>>]

\* ElfReadDomain::read_pointer_optional: Ok(Some(symbol offset)), Ok(None) or Err
read_pointer_optional(d, r) ==
    LET offset == r.pos
        real_value == read_u32(r)
        none == [ok |-> TRUE, some |-> FALSE, value |-> 0, reader |-> real_value.reader]
        err == [none EXCEPT !.ok = FALSE]
    IN  IF ~real_value.ok THEN err
        ELSE IF real_value.value # 0 THEN err
        ELSE IF offset \in DOMAIN d.relocations
        THEN LET index == d.relocations[offset].info \div 256
             IN  IF index < Len(d.symbols)
                 THEN [none EXCEPT !.some = TRUE, !.value = symbol_offset(d.symbols[index + 1])]
                 ELSE err
        ELSE none

\* a read_pointer that hands on whatever read_pointer_optional returned
read_pointer_lenient(d, r) == read_pointer_optional(d, r)

\* ElfReadDomain::read_pointer
read_pointer(d, r) ==
    LET optional_pointer == read_pointer_optional(d, r)
    IN  IF optional_pointer.ok /\ ~optional_pointer.some
        THEN [optional_pointer EXCEPT !.ok = FALSE]
        ELSE optional_pointer

\* read_string_optional after its read_pointer_optional: value is NoStr or SomeStr(..)
string_at_optional(d, pointer) ==
    IF ~pointer.ok THEN [ok |-> FALSE, value |-> NoStr, reader |-> pointer.reader]
    ELSE IF ~pointer.some THEN [ok |-> TRUE, value |-> NoStr, reader |-> pointer.reader]
    ELSE IF util_read_string(d.rodata_section, pointer.value).ok
    THEN [ok |-> TRUE, value |-> SomeStr(util_read_string(d.rodata_section, pointer.value).value),
          reader |-> pointer.reader]
    ELSE [ok |-> FALSE, value |-> NoStr, reader |-> pointer.reader]

\* ElfReadDomain::read_string_optional
read_string_optional(d, r) == string_at_optional(d, read_pointer_optional(d, r))

\* read_string after its read_pointer_optional: a null pointer is an error
string_at(d, pointer) ==
    IF ~pointer.ok \/ ~pointer.some
    THEN [ok |-> FALSE, value |-> <<>>, reader |-> pointer.reader]
    ELSE [ok |-> util_read_string(d.rodata_section, pointer.value).ok,
          value |-> util_read_string(d.rodata_section, pointer.value).value,
          reader |-> pointer.reader]

\* ElfReadDomain::read_string
read_string(d, r) == string_at(d, read_pointer_optional(d, r))

\* the frame of a running scope: the callee, what its callback reads, where the
\* callee started, the reader position when the scope was entered, the guard,
\* the elements still to read, whether the body has failed
Frame(fn, ty, start, entry, guard, remaining) ==
    [fn |-> fn, ty |-> ty, start |-> start, entry |-> entry, guard |-> guard,
     remaining |-> remaining, failed |-> FALSE]

\* the most recent return of read_vec / read_box_nullable: where the callee
\* started, whether its own header reads succeeded, whether it entered a scope,
\* the position at scope entry, the position where the body left the reader, the
\* position after the return
Return(fn, start, ok, header_ok, scoped, entry, left_at, pos) ==
    [fn |-> fn, start |-> start, ok |-> ok, header_ok |-> header_ok, scoped |-> scoped,
     entry |-> entry, left_at |-> left_at, pos |-> pos]

NoReturn == Return("none", 0, TRUE, TRUE, FALSE, 0, 0, 0)

-----------------------------------------------------------------------------
(* The ELF container: ElfHeader, SectionHeader, Section, ElfContainer        *)

\* a u32 as its two 16-bit halves: e_shoff and e_flags take values from 2^31 on
Wide(hi, lo) == [hi |-> hi, lo |-> lo]

WideOf(n) == Wide(n \div 65536, n % 65536)

\* binrw's big-endian image of a u32 field, and its parse
WideBE(w) == U16BE(w.hi) \o U16BE(w.lo)

ReadWideBE(buf, pos) == Wide(ReadU16BE(buf, pos), ReadU16BE(buf, pos + 2))

\* `as u64` of a u32 field the reader seeks to; a value from 2^31 on lies past
\* every file the model handles
wide_seek(w, file) == IF w.hi >= 32768 THEN Len(file) + 1 ELSE w.hi * 65536 + w.lo

ELF_HEADER_IDENT == <<127, 69, 76, 70, 1, 2, 1, 0, 0, 0, 0, 0>>

\* offset_of!(ElfHeader, e_shoff)
offset_of_e_shoff == 32

\* ElfHeader::write
ElfHeader_write(h) ==
    h.e_ident \o WideBE(h.e_ident_padding_unk) \o U16BE(h.e_type) \o U16BE(h.e_machine)
        \o WideBE(h.e_version) \o WideBE(h.e_entry) \o WideBE(h.e_phoff)
        \o WideBE(h.e_shoff) \o WideBE(h.e_flags) \o U16BE(h.e_ehsize)
        \o U16BE(h.e_phentsize) \o U16BE(h.e_phnum) \o U16BE(h.e_shentsize)
        \o U16BE(h.e_shnum) \o U16BE(h.e_shstrndx)

\* ElfHeader::read at the start of the file
ElfHeader_read(file) ==
    IF Len(file) < 52 THEN [ok |-> FALSE]
    ELSE [ok |-> TRUE,
          header |-> [e_ident |-> SubSeq(file, 1, 12),
                      e_ident_padding_unk |-> ReadWideBE(file, 12),
                      e_type |-> ReadU16BE(file, 16),
                      e_machine |-> ReadU16BE(file, 18),
                      e_version |-> ReadWideBE(file, 20),
                      e_entry |-> ReadWideBE(file, 24),
                      e_phoff |-> ReadWideBE(file, 28),
                      e_shoff |-> ReadWideBE(file, 32),
                      e_flags |-> ReadWideBE(file, 36),
                      e_ehsize |-> ReadU16BE(file, 40),
                      e_phentsize |-> ReadU16BE(file, 42),
                      e_phnum |-> ReadU16BE(file, 44),
                      e_shentsize |-> ReadU16BE(file, 46),
                      e_shnum |-> ReadU16BE(file, 48),
                      e_shstrndx |-> ReadU16BE(file, 50)]]

\* #[brw(repr = u32)] enum SectionType
SectionTypes == <<"None", "Progbits", "SymTable", "StringTable", "Rela">>

SectionType_repr(t) == (CHOOSE i \in 1..Len(SectionTypes) : SectionTypes[i] = t) - 1

SHF_ALLOC == 2
SHF_INFO_LINK == 64

SectionHeader(sh_name, sh_type, sh_flags, sh_addr, sh_offset, sh_size, sh_link, sh_info, sh_addralign, sh_entsize) ==
    [sh_name |-> sh_name, sh_type |-> sh_type, sh_flags |-> sh_flags, sh_addr |-> sh_addr,
     sh_offset |-> sh_offset, sh_size |-> sh_size, sh_link |-> sh_link, sh_info |-> sh_info,
     sh_addralign |-> sh_addralign, sh_entsize |-> sh_entsize]

\* SectionHeader::default()
SectionHeader_default == SectionHeader(0, "None", 0, 0, 0, 0, 0, 0, 0, 0)

\* SectionHeader::write
SectionHeader_write(h) ==
    U32BE(h.sh_name) \o U32BE(SectionType_repr(h.sh_type)) \o U32BE(h.sh_flags)
        \o U32BE(h.sh_addr) \o U32BE(h.sh_offset) \o U32BE(h.sh_size) \o U32BE(h.sh_link)
        \o U32BE(h.sh_info) \o U32BE(h.sh_addralign) \o U32BE(h.sh_entsize)

\* SectionHeader::read at pos: fails on a short read and on an unknown sh_type
SectionHeader_read(file, pos) ==
    IF pos + 40 > Len(file) THEN [ok |-> FALSE]
    ELSE IF ReadU32BE(file, pos + 4) >= Len(SectionTypes) THEN [ok |-> FALSE]
    ELSE [ok |-> TRUE,
          header |-> SectionHeader(ReadU32BE(file, pos),
                                   SectionTypes[ReadU32BE(file, pos + 4) + 1],
                                   ReadU32BE(file, pos + 8), ReadU32BE(file, pos + 12),
                                   ReadU32BE(file, pos + 16), ReadU32BE(file, pos + 20),
                                   ReadU32BE(file, pos + 24), ReadU32BE(file, pos + 28),
                                   ReadU32BE(file, pos + 32), ReadU32BE(file, pos + 36))]

\* Option<IndexMap<Pointer, Relocation>>
NoRelocations == [some |-> FALSE, map |-> <<>>]
SomeRelocations(map) == [some |-> TRUE, map |-> map]

Section(header, name, relocations, content) ==
    [header |-> header, name |-> name, relocations |-> relocations, content |-> content]

\* Section::default()
Section_default == Section(SectionHeader_default, <<>>, NoRelocations, <<>>)

\* a section that keeps SectionHeader::default() instead of the header it was read with
Section_from_reader_default_header(header, name, file) ==
    IF header.sh_offset + header.sh_size > Len(file) /\ header.sh_size > 0
    THEN [ok |-> FALSE]
    ELSE [ok |-> TRUE,
          section |-> Section(SectionHeader_default, name, NoRelocations,
                              SubSeq(file, header.sh_offset + 1,
                                     header.sh_offset + header.sh_size))]

\* Section::from_reader: seek to sh_offset, read_exact sh_size bytes
Section_from_reader(header, name, file) ==
    IF header.sh_offset + header.sh_size > Len(file) /\ header.sh_size > 0
    THEN [ok |-> FALSE]
    ELSE [ok |-> TRUE,
          section |-> Section(header, name, NoRelocations,
                              SubSeq(file, header.sh_offset + 1,
                                     header.sh_offset + header.sh_size))]

\* IndexMap::insert keyed by the entry's name: an existing key keeps its index
indexmap_insert(m, value) ==
    IF \E i \in 1..Len(m) : m[i].name = value.name
    THEN [i \in 1..Len(m) |-> IF m[i].name = value.name THEN value ELSE m[i]]
    ELSE Append(m, value)

\* IndexMap::get by name
indexmap_get(m, name) ==
    IF \E i \in 1..Len(m) : m[i].name = name
    THEN [some |-> TRUE, value |-> m[CHOOSE i \in 1..Len(m) : m[i].name = name]]
    ELSE [some |-> FALSE]

\* str::starts_with
starts_with(s, prefix) == Len(s) >= Len(prefix) /\ SubSeq(s, 1, Len(prefix)) = prefix

\* ".rela", ".rodata", ".shstrtab", ".symtab", ".strtab"
RelaPrefix == <<46, 114, 101, 108, 97>>
RodataName == <<46, 114, 111, 100, 97, 116, 97>>
ShstrtabName == <<46, 115, 104, 115, 116, 114, 116, 97, 98>>
SymtabName == <<46, 115, 121, 109, 116, 97, 98>>
StrtabName == <<46, 115, 116, 114, 116, 97, 98>>

\* b"\0.symtab\0.strtab\0.shstrtab\0.rela.rodata\0"
SH_STRING_TAB ==
    <<0, 46, 115, 121, 109, 116, 97, 98, 0, 46, 115, 116, 114, 116, 97, 98, 0,
      46, 115, 104, 115, 116, 114, 116, 97, 98, 0,
      46, 114, 101, 108, 97, 46, 114, 111, 100, 97, 116, 97, 0>>

\* ElfContainer::new
NewElfContainer(header) ==
    [header |-> header, symbols |-> <<>>, content_sections |-> <<Section_default>>,
     meta_sections |-> <<>>]

add_content_section_inner(container, name, align, content) ==
    [container EXCEPT !.content_sections =
        indexmap_insert(@, Section(SectionHeader(0, "Progbits", SHF_ALLOC, 0, 0, 0, 0, 0, align, 0),
                                   name, SomeRelocations(<<>>), content))]

add_content_section_with_relocations(container, name, align, content, relocations) ==
    [add_content_section_inner(container, name, align, content) EXCEPT !.meta_sections =
        indexmap_insert(@, Section(SectionHeader(0, "Rela", SHF_INFO_LINK, 0, 0, 0, 4, 1, align, 12),
                                   RelaPrefix \o name, SomeRelocations(<<>>), relocations))]

add_string_table_raw(container, name, flags, align, content) ==
    [container EXCEPT !.meta_sections =
        indexmap_insert(@, Section(SectionHeader(0, "StringTable", flags, 0, 0, 0, 0, 0, align, 0),
                                   name, NoRelocations, content))]

add_symbol_table_raw(container, name, flags, last_local_symbol_, align, content) ==
    [container EXCEPT !.meta_sections =
        indexmap_insert(@, Section(SectionHeader(0, "SymTable", flags, 0, 0, 0, 5,
                                                 last_local_symbol_, align, 16),
                                   name, NoRelocations, content))]

\* vivibin::align_to on the Cursor<Vec<u8>> of to_bytes: zero-fill to the next
\* multiple of n
writer_align_to(writer, n) == writer \o Zeros(AlignUp(Len(writer), n) - Len(writer))

\* memmem::find: the first 0-based offset at which needle occurs
memmem_find(haystack, needle) ==
    LET hits == {i \in 0..(Len(haystack) - Len(needle)) :
                    SubSeq(haystack, i + 1, i + Len(needle)) = needle}
    IN  IF hits = {} THEN [some |-> FALSE, value |-> 0]
        ELSE [some |-> TRUE, value |-> CHOOSE i \in hits : \A j \in hits : i <= j]

\* write_section_header that leaves sh_size as the in-memory header has it
write_section_header_stale_size(writer, section_offsets, shstrtab, section) ==
    LET name_offset == memmem_find(shstrtab, section.name).value
        header == [section.header EXCEPT !.sh_name = name_offset,
                                         !.sh_offset = section_offsets[section.name]]
    IN  writer_align_to(writer, section.header.sh_addralign) \o SectionHeader_write(header)

\* ElfContainer::write_section_header
write_section_header(writer, section_offsets, shstrtab, section) ==
    LET name_offset == memmem_find(shstrtab, section.name).value
        header == [section.header EXCEPT !.sh_name = name_offset,
                                         !.sh_offset = section_offsets[section.name],
                                         !.sh_size = Len(section.content)]
    IN  writer_align_to(writer, section.header.sh_addralign) \o SectionHeader_write(header)

\* to_bytes: align_to, section_offsets.insert, write_all for each section of a
\* list; st is [writer, section_offsets]
write_section_contents(st, sections) ==
    LET f[i \in 0..Len(sections)] ==
            IF i = 0 THEN st
            ELSE LET prev == f[i - 1]
                     aligned == writer_align_to(prev.writer, sections[i].header.sh_addralign)
                 IN  [writer |-> aligned \o sections[i].content,
                      section_offsets |->
                          map_insert(prev.section_offsets, sections[i].name, Len(aligned))]
    IN  f[Len(sections)]

is_relocation_section(section) == starts_with(section.name, RelaPrefix)

is_meta_section(section) == ~starts_with(section.name, RelaPrefix)

\* to_bytes: the header of a content section and of its ".rela" section
write_content_section_headers(writer, section_offsets, shstrtab, container, section) ==
    LET own == write_section_header(writer, section_offsets, shstrtab, section)
        relocation_section == indexmap_get(container.meta_sections, RelaPrefix \o section.name)
    IN  IF section.name = <<>> THEN writer
        ELSE IF relocation_section.some
        THEN write_section_header(own, section_offsets, shstrtab, relocation_section.value)
        ELSE own

\* to_bytes: the section header table up to the content sections
write_section_header_table(writer, section_offsets, shstrtab, container) ==
    LET f[i \in 0..Len(container.content_sections)] ==
            IF i = 0 THEN writer \o SectionHeader_write(SectionHeader_default)
            ELSE write_content_section_headers(f[i - 1], section_offsets, shstrtab, container,
                                               container.content_sections[i])
    IN  f[Len(container.content_sections)]

\* to_bytes with the .strtab header written before the .symtab header
write_meta_section_headers_strtab_first(writer, section_offsets, shstrtab, symtab_, strtab_) ==
    write_section_header(
        write_section_header(
            write_section_header(writer, section_offsets, shstrtab.content, shstrtab),
            section_offsets, shstrtab.content, strtab_),
        section_offsets, shstrtab.content, symtab_)

\* to_bytes: the three meta headers that end the table
write_meta_section_headers(writer, section_offsets, shstrtab, symtab_, strtab_) ==
    write_section_header(
        write_section_header(
            write_section_header(writer, section_offsets, shstrtab.content, shstrtab),
            section_offsets, shstrtab.content, symtab_),
        section_offsets, shstrtab.content, strtab_)

\* to_bytes with the relocation sections written before the other meta sections
write_all_section_contents_rela_first(container) ==
    write_section_contents(
        write_section_contents(
            write_section_contents(
                [writer |-> ElfHeader_write(container.header), section_offsets |-> <<>>],
                container.content_sections),
            SelectSeq(container.meta_sections, is_relocation_section)),
        SelectSeq(container.meta_sections, is_meta_section))

\* to_bytes: everything before the section header table
write_all_section_contents(container) ==
    write_section_contents(
        write_section_contents(
            write_section_contents(
                [writer |-> ElfHeader_write(container.header), section_offsets |-> <<>>],
                container.content_sections),
            SelectSeq(container.meta_sections, is_meta_section)),
        SelectSeq(container.meta_sections, is_relocation_section))

\* ElfContainer::to_bytes; indexing meta_sections with a missing name panics
to_bytes(container) ==
    LET contents == write_all_section_contents(container)
        sh_offset == Len(contents.writer)
        shstrtab == indexmap_get(container.meta_sections, ShstrtabName)
        symtab_ == indexmap_get(container.meta_sections, SymtabName)
        strtab_ == indexmap_get(container.meta_sections, StrtabName)
        table == write_section_header_table(contents.writer, contents.section_offsets,
                                            shstrtab.value.content, container)
        writer == write_meta_section_headers(table, contents.section_offsets, shstrtab.value,
                                             symtab_.value, strtab_.value)
    IN  IF shstrtab.some /\ symtab_.some /\ strtab_.some
        THEN [ok |-> TRUE, bytes |-> Overwrite(writer, offset_of_e_shoff, U32BE(sh_offset))]
        ELSE [ok |-> FALSE, bytes |-> <<>>]

\* from_reader: the e_shnum section headers at e_shoff
read_section_headers(file, header) ==
    LET start == wide_seek(header.e_shoff, file)
    IN  [ok |-> \A i \in 0..(header.e_shnum - 1) : SectionHeader_read(file, start + 40 * i).ok,
         headers |-> [i \in 1..header.e_shnum |->
                          SectionHeader_read(file, start + 40 * (i - 1)).header]]

\* from_reader: the Relocation entries of a ".rela" section, collected into an
\* IndexMap keyed by offset
read_relocations(content) ==
    LET relocation_count == Len(content) \div 12
        f[i \in 0..relocation_count] ==
            IF i = 0 THEN <<>>
            ELSE LET relocation == Relocation(ReadU32BE(content, 12 * (i - 1)),
                                              ReadU32BE(content, 12 * (i - 1) + 4),
                                              ReadU32BE(content, 12 * (i - 1) + 8))
                 IN  map_insert(f[i - 1], relocation.offset, relocation)
    IN  f[relocation_count]

\* from_reader: the SymbolHeader entries of .symtab
read_symbol_headers(content) ==
    [i \in 1..(Len(content) \div 16) |->
        SymbolHeader(ReadU32BE(content, 16 * (i - 1)), ReadU32BE(content, 16 * (i - 1) + 4),
                     ReadU32BE(content, 16 * (i - 1) + 8), content[16 * (i - 1) + 13],
                     content[16 * (i - 1) + 14], ReadU16BE(content, 16 * (i - 1) + 14))]

\* Option<Vec<..>>
NoVec == [some |-> FALSE, value |-> <<>>]
SomeVec(value) == [some |-> TRUE, value |-> value]

\* from_reader: the state of the loop over the section headers
NewSectionScan ==
    [ok |-> TRUE, all_section_names |-> <<>>, content_sections |-> <<>>,
     meta_sections |-> <<>>, symbol_headers |-> NoVec, string_table |-> NoVec]

\* from_reader: a ".rela" section is parsed, attached to its content section and
\* kept as a meta section
scan_relocation_section(scan, name, section) ==
    LET original_section_name == SubSeq(name, Len(RelaPrefix) + 1, Len(name))
        original_section == indexmap_get(scan.content_sections, original_section_name)
    IN  IF ~original_section.some THEN [scan EXCEPT !.ok = FALSE]
        ELSE [scan EXCEPT
                !.content_sections =
                    indexmap_insert(@, [original_section.value EXCEPT !.relocations =
                                            SomeRelocations(read_relocations(section.content))]),
                !.meta_sections = indexmap_insert(@, section)]

\* from_reader: match name.as_str()
scan_other_section(scan, name, section) ==
    IF name = StrtabName
    THEN [scan EXCEPT !.string_table = SomeVec(section.content),
                      !.meta_sections = indexmap_insert(@, section)]
    ELSE IF name = SymtabName
    THEN [scan EXCEPT !.symbol_headers = SomeVec(read_symbol_headers(section.content)),
                      !.meta_sections = indexmap_insert(@, section)]
    ELSE IF name = ShstrtabName
    THEN [scan EXCEPT !.meta_sections = indexmap_insert(@, section)]
    ELSE [scan EXCEPT !.content_sections = indexmap_insert(@, section)]

\* from_reader: one iteration of "for header in section_headers"
scan_section(scan, header, file, sh_string_table) ==
    LET name == util_read_string(sh_string_table, header.sh_name)
        section == Section_from_reader(header, name.value, file)
        named == [scan EXCEPT !.all_section_names = Append(@, name.value)]
    IN  IF ~scan.ok THEN scan
        ELSE IF ~name.ok THEN [scan EXCEPT !.ok = FALSE]
        ELSE IF ~section.ok THEN [scan EXCEPT !.ok = FALSE]
        ELSE IF starts_with(name.value, RelaPrefix)
        THEN scan_relocation_section(named, name.value, section.section)
        ELSE scan_other_section(named, name.value, section.section)

scan_sections(section_headers, file, sh_string_table) ==
    LET f[i \in 0..Len(section_headers)] ==
            IF i = 0 THEN NewSectionScan
            ELSE scan_section(f[i - 1], section_headers[i], file, sh_string_table)
    IN  f[Len(section_headers)]

\* from_reader: the name of a symbol; a section symbol is named after its section
symbol_name(sym_header, all_section_names, string_table) ==
    IF sym_header.st_info = 3
    THEN IF sym_header.st_shndx < Len(all_section_names)
         THEN [ok |-> TRUE, value |-> all_section_names[sym_header.st_shndx + 1]]
         ELSE [ok |-> FALSE, value |-> <<>>]
    ELSE util_read_string(string_table, sym_header.st_name)

\* from_reader: "for sym_header in symbol_headers"
read_symbols(symbol_headers, all_section_names, string_table) ==
    LET f[i \in 0..Len(symbol_headers)] ==
            IF i = 0 THEN [ok |-> TRUE, symbols |-> <<>>]
            ELSE LET prev == f[i - 1]
                     name == symbol_name(symbol_headers[i], all_section_names, string_table)
                 IN  IF ~prev.ok \/ ~name.ok THEN [ok |-> FALSE, symbols |-> <<>>]
                     ELSE [ok |-> TRUE,
                           symbols |-> indexmap_insert(prev.symbols,
                                                       Symbol(symbol_headers[i], name.value))]
    IN  f[Len(symbol_headers)]

NoContainer == [ok |-> FALSE, container |-> NewElfContainer(<<>>)]

\* from_reader from the section-header string table on
read_sections(file, header, section_headers) ==
    LET sh_string_table_header == section_headers[header.e_shstrndx + 1]
        sh_string_table == Section_from_reader(sh_string_table_header, <<>>, file)
        scan == scan_sections(section_headers, file, sh_string_table.section.content)
        symbols == read_symbols(scan.symbol_headers.value, scan.all_section_names,
                                scan.string_table.value)
    IN  IF header.e_shstrndx >= Len(section_headers) THEN NoContainer
        ELSE IF ~sh_string_table.ok THEN NoContainer
        ELSE IF ~scan.ok THEN NoContainer
        ELSE IF ~scan.string_table.some \/ ~scan.symbol_headers.some THEN NoContainer
        ELSE IF ~symbols.ok THEN NoContainer
        ELSE [ok |-> TRUE,
              container |-> [header |-> header, symbols |-> symbols.symbols,
                             content_sections |-> scan.content_sections,
                             meta_sections |-> scan.meta_sections]]

\* ElfContainer::from_reader
from_reader(file) ==
    LET header == ElfHeader_read(file)
        section_headers == read_section_headers(file, header.header)
    IN  IF ~header.ok THEN NoContainer
        ELSE IF ~section_headers.ok THEN NoContainer
        ELSE read_sections(file, header.header, section_headers.headers)

-----------------------------------------------------------------------------
(* A serialization pass: any write-domain calls on the root block, then the *)
(* steps of reassemble_elf_container                                        *)

\* "data_shop.cpp"
CppFileName == <<100, 97, 116, 97, 95, 115, 104, 111, 112, 46, 99, 112, 112>>

\* format!("\0{}\0", data.cpp_file_name())
initial_strtab(cpp_file_name) == <<0>> \o cpp_file_name \o <<0>>

\* the string_dedup_size values a pass may be constructed with: a cutoff the
\* root block reaches after one word, and FileData::string_dedup_size's 0xc32c
DedupSizes == {4, 49964}

\* "a", "ab", "abc"
Strings == {<<97>>, <<97, 98>>, <<97, 98, 99>>}

\* the callback bodies handed to write_box and write_symbol
Bodies == {<<OpU32(7)>>, <<OpString(<<97, 98, 99>>, TRUE)>>}

\* the element lists handed to write_slice: each element is written by one string
\* no element; two strings; a named box and a string
SliceValues ==
    {<<>>, << <<OpString(<<97>>, TRUE)>>, <<OpString(<<97, 98, 99>>, TRUE)>> >>,
     << <<OpBox(Internal(115), <<OpU32(7)>>)>>, <<OpString(<<97>>, TRUE)>> >>}

\* SoldItem-like elements: two optional strings; the default element is two nulls
ItemValues == {<<>>, << <<OpStringOptional(SomeStr(<<97>>), TRUE), OpStringOptional(NoStr, TRUE)>> >>}
ItemDefault == <<OpStringOptional(NoStr, TRUE), OpStringOptional(NoStr, TRUE)>>

\* 'l', 's', "la", "g"
BoxNames == {NoName, Internal(108)}
SliceNames == {NoName, InternalNamed(<<108, 97>>)}
ItemNames == {NoName, Internal(115)}
GlobalNames == {<<103>>}

Init ==
    /\ ctx = NewCtx
    /\ \E size \in DedupSizes, debug \in BOOLEAN : domain = NewDomain(size, debug)
    /\ ops = <<>>
    /\ pc = "serialize"
    /\ result_buffer = <<>>
    /\ block_offsets = <<>>
    /\ symtab = <<>>
    /\ strtab = <<>>
    /\ last_local_symbol = 0
    /\ symbol_indices = <<>>
    /\ rela_rodata = <<>>
    /\ reader = NewReader(<<>>, 0, TRUE)
    /\ read_domain = NewReadDomain(<<>>, <<>>, <<>>)
    /\ frames = <<>>
    /\ returned = NoReturn
    /\ input_file = <<>>
    /\ elf_file = NoContainer
    /\ out_elf = [ok |-> FALSE, bytes |-> <<>>]
    /\ data = [ok |-> FALSE, shops |-> <<>>]
    /\ final_elf_bytes = [ok |-> FALSE, bytes |-> <<>>]
    /\ data_again = [ok |-> FALSE, shops |-> <<>>]

outputs == <<result_buffer, block_offsets, symtab, strtab, last_local_symbol,
             symbol_indices, rela_rodata>>

\* the serializer may still call the write domain
serializing == pc = "serialize" /\ Len(ops) < MaxOps

\* one write-domain call on the root block
Call(o) ==
    /\ LET w == exec([ctx |-> ctx, domain |-> domain], o)
       IN  /\ ctx' = w.ctx
           /\ domain' = w.domain
    /\ ops' = Append(ops, o)
    /\ UNCHANGED <<pc, outputs, rvars, tvars>>

WriteFallback ==
    /\ serializing
    /\ Call(OpU32(7))

WriteString ==
    /\ serializing
    /\ \E value \in Strings, deduplicate \in BOOLEAN : Call(OpString(value, deduplicate))

WriteStringOptional ==
    /\ serializing
    /\ \E value \in {NoStr, SomeStr(<<97>>)} : Call(OpStringOptional(value, TRUE))

WriteBox ==
    /\ serializing
    /\ \E name \in BoxNames, body \in Bodies : Call(OpBox(name, body))

WriteSlice ==
    /\ serializing
    /\ \E values \in SliceValues, name \in SliceNames : Call(OpSlice(values, name))

WriteNullTerminatedSlice ==
    /\ serializing
    /\ \E values \in ItemValues, name \in ItemNames :
           Call(OpNullTerminatedSlice(values, name, ItemDefault))

WriteSymbol ==
    /\ serializing
    /\ \E name \in GlobalNames, body \in Bodies : Call(OpSymbol(name, body))

\* let result_buffer = ctx.to_buffer(&mut domain, Some(&mut block_offsets))?;
ToBuffer ==
    /\ pc = "serialize"
    /\ LET r == to_buffer(ctx, domain)
       IN  /\ result_buffer' = r.buffer
           /\ domain' = r.domain
           /\ block_offsets' = r.block_offsets
    /\ pc' = "finalized"
    /\ UNCHANGED <<ctx, ops, symtab, strtab, last_local_symbol, symbol_indices, rela_rodata, rvars, tvars>>

\* let (symtab, last_local_symbol, strtab) = write_symtab(...)?;
WriteSymtab ==
    /\ pc = "finalized"
    /\ LET r == write_symtab(initial_strtab(CppFileName), block_offsets,
                             domain.symbol_declarations)
       IN  /\ symtab' = r.symtab
           /\ strtab' = r.strtab
           /\ last_local_symbol' = r.last_local_symbol
           /\ symbol_indices' = r.symbol_indices
           /\ domain' = [domain EXCEPT !.symbol_declarations = r.symbol_declarations]
           /\ pc' = IF r.ok THEN "symtab" ELSE "panic"
    /\ UNCHANGED <<ctx, ops, result_buffer, block_offsets, rela_rodata, rvars, tvars>>

\* let rela_rodata = write_relocations(&symbol_indices, &mut domain.relocations)?;
WriteRelocations ==
    /\ pc = "symtab"
    /\ LET r == write_relocations(symbol_indices, domain.relocations)
       IN  /\ rela_rodata' = r.bytes
           /\ domain' = [domain EXCEPT !.relocations = r.relocations]
           /\ pc' = IF r.ok THEN "rela" ELSE "panic"
    /\ UNCHANGED <<ctx, ops, result_buffer, block_offsets, symtab, strtab,
                   last_local_symbol, symbol_indices, rvars, tvars>>

Next ==
    \/ WriteFallback
    \/ WriteString
    \/ WriteStringOptional
    \/ WriteBox
    \/ WriteSlice
    \/ WriteNullTerminatedSlice
    \/ WriteSymbol
    \/ ToBuffer
    \/ WriteSymtab
    \/ WriteRelocations

Spec == Init /\ [][Next]_vars

-----------------------------------------------------------------------------
(* The shop format (formats/shop.rs) and reassemble_elf_container            *)

SoldItem(item_id, requirement) == [item_id |-> item_id, requirement |-> requirement]

\* SoldItem::default()
SoldItem_default == SoldItem(NoStr, NoStr)

Shop(shop_id, items) == [shop_id |-> shop_id, items |-> items]

\* "shopList__Q2_4data4shop", "shopListLen__Q2_4data4shop"
ShopListSymbol ==
    <<115, 104, 111, 112, 76, 105, 115, 116, 95, 95, 81, 50, 95, 52, 100, 97, 116, 97, 52,
      115, 104, 111, 112>>
ShopListLenSymbol ==
    <<115, 104, 111, 112, 76, 105, 115, 116, 76, 101, 110, 95, 95, 81, 50, 95, 52, 100, 97,
      116, 97, 52, 115, 104, 111, 112>>

\* a SoldItem writer that emits requirement before item_id
SoldItem_to_writer_swapped(item) ==
    <<OpStringOptional(item.requirement, TRUE), OpStringOptional(item.item_id, TRUE)>>

\* #[derive(Writable)] for SoldItem: the fields in declaration order
SoldItem_to_writer(item) ==
    <<OpStringOptional(item.item_id, TRUE), OpStringOptional(item.requirement, TRUE)>>

\* Shop::to_writer_unboxed
Shop_to_writer(shop) ==
    <<OpString(shop.shop_id, TRUE),
      OpNullTerminatedSlice([i \in 1..Len(shop.items) |-> SoldItem_to_writer(shop.items[i])],
                            Internal(115), SoldItem_to_writer(SoldItem_default))>>

\* write_shops: the callback bodies of its two write_symbol calls
RECURSIVE shop_list_body(_)
shop_list_body(shops) ==
    IF Len(shops) = 0 THEN <<>>
    ELSE Shop_to_writer(Head(shops)) \o shop_list_body(Tail(shops))

write_shops(w, shops) ==
    exec_all(w, <<OpSymbol(ShopListSymbol, shop_list_body(shops)),
                  OpSymbol(ShopListLenSymbol, <<OpU32(Len(shops))>>)>>)

\* FileData::string_dedup_size for shop data (0xc32c)
FileData_string_dedup_size == 49964

\* the ElfHeader literal of reassemble_elf_container; elf_ident_padding_unk is 0
\* for shop data, e_shoff is u32::MAX until to_bytes patches it, e_flags 0x80000000
reassembled_header ==
    [e_ident |-> ELF_HEADER_IDENT, e_ident_padding_unk |-> WideOf(0), e_type |-> 1,
     e_machine |-> 20, e_version |-> WideOf(1), e_entry |-> WideOf(0), e_phoff |-> WideOf(0),
     e_shoff |-> Wide(65535, 65535), e_flags |-> Wide(32768, 0), e_ehsize |-> 52,
     e_phentsize |-> 0, e_phnum |-> 0, e_shentsize |-> 40, e_shnum |-> 6, e_shstrndx |-> 3]

\* reassemble_elf_container: "populate new ElfContainer"
populate_container(result_buffer_, rela_rodata_, symtab_, last_local_symbol_, strtab_) ==
    add_string_table_raw(
        add_symbol_table_raw(
            add_string_table_raw(
                add_content_section_with_relocations(NewElfContainer(reassembled_header),
                                                     RodataName, 4, result_buffer_, rela_rodata_),
                ShstrtabName, 0, 1, SH_STRING_TAB),
            SymtabName, 0, last_local_symbol_, 4, symtab_),
        StrtabName, 0, 1, strtab_)

\* reassemble_elf_container from write_relocations on
reassemble_relocations(result_buffer_, symbols, relocations) ==
    IF ~relocations.ok THEN NoContainer
    ELSE [ok |-> TRUE,
          container |-> populate_container(result_buffer_, relocations.bytes, symbols.symtab,
                                           symbols.last_local_symbol, symbols.strtab)]

\* reassemble_elf_container from write_symtab on
reassemble_symbols(result_buffer_, relocations, symbols) ==
    IF ~symbols.ok THEN NoContainer
    ELSE reassemble_relocations(result_buffer_, symbols,
                                write_relocations(symbols.symbol_indices, relocations))

\* reassemble_elf_container from "serialize elf metadata" on; buffer is what
\* ctx.to_buffer left: the section bytes, the domain and the block offsets
reassemble_metadata(buffer) ==
    reassemble_symbols(buffer.buffer, buffer.domain.relocations,
                       write_symtab(initial_strtab(CppFileName), buffer.block_offsets,
                                    buffer.domain.symbol_declarations))

\* ctx.to_buffer(&mut domain, Some(&mut block_offsets)) on the serialized data
serialized_buffer(w) == to_buffer(w.ctx, w.domain)

\* reassemble_elf_container for FileData::Shop
reassemble_elf_container(shop_list, apply_debug_relocations) ==
    reassemble_metadata(
        serialized_buffer(
            write_shops([ctx |-> NewCtx,
                         domain |-> NewDomain(FileData_string_dedup_size,
                                              apply_debug_relocations)], shop_list)))

\* ElfReadDomain::find_symbol
find_symbol(d, name) == indexmap_get(d.symbols, name)

\* a terminator test that looks at item_id only
is_default_item_by_id(value) == value.item_id = NoStr

\* value == SoldItem::default()
is_default_item(value) == value = SoldItem_default

RECURSIVE read_sold_items(_, _)

\* the SoldItem loop after an item was read: stop at the default item
sold_items_after_item(d, value, r) ==
    IF is_default_item(value) THEN [ok |-> TRUE, items |-> <<>>, reader |-> r]
    ELSE [read_sold_items(d, r) EXCEPT !.items = <<value>> \o @]

\* #[derive(Readable)] for SoldItem after item_id was read: requirement
sold_items_after_requirement(d, item_id, requirement) ==
    IF ~requirement.ok THEN [ok |-> FALSE, items |-> <<>>, reader |-> requirement.reader]
    ELSE sold_items_after_item(d, SoldItem(item_id, requirement.value), requirement.reader)

\* #[derive(Readable)] for SoldItem: item_id, then requirement
sold_items_after_item_id(d, item_id) ==
    IF ~item_id.ok THEN [ok |-> FALSE, items |-> <<>>, reader |-> item_id.reader]
    ELSE sold_items_after_requirement(d, item_id.value,
                                      read_string_optional(d, item_id.reader))

\* Shop::from_reader_unboxed: the loop that reads SoldItems up to the default one
read_sold_items(d, r) == sold_items_after_item_id(d, read_string_optional(d, r))

\* Shop::from_reader_unboxed from the end of the loop on: the guard is dropped
shop_of_items(shop_id, guard, items) ==
    [ok |-> items.ok, shop |-> Shop(shop_id, items.items),
     reader |-> ReaderGuard_drop(guard, items.reader)]

\* Shop::from_reader_unboxed from scoped_reader_pos!(reader) on
shop_after_items_ptr(d, shop_id, items_ptr) ==
    IF ~items_ptr.ok THEN [ok |-> FALSE, reader |-> items_ptr.reader]
    ELSE shop_of_items(shop_id, ReaderGuard_new(items_ptr.reader),
                       read_sold_items(d, seek(items_ptr.reader, items_ptr.value)))

\* Shop::from_reader_unboxed from items_ptr on
shop_after_shop_id(d, shop_id) ==
    IF ~shop_id.ok THEN [ok |-> FALSE, reader |-> shop_id.reader]
    ELSE shop_after_items_ptr(d, shop_id.value, read_pointer(d, shop_id.reader))

\* Shop::from_reader_unboxed
Shop_from_reader(d, r) == shop_after_shop_id(d, read_string(d, r))

RECURSIVE read_shop_list(_, _, _)

\* collect::<Result<_>>()
shop_list_with(shop, rest) ==
    IF ~rest.ok THEN [ok |-> FALSE, shops |-> <<>>]
    ELSE [ok |-> TRUE, shops |-> <<shop>> \o rest.shops]

shop_list_after_shop(d, shop, count) ==
    IF ~shop.ok THEN [ok |-> FALSE, shops |-> <<>>]
    ELSE shop_list_with(shop.shop, read_shop_list(d, shop.reader, count - 1))

\* read_shops: (0..shop_list_len).map(|_| Shop::from_reader(reader, domain))
read_shop_list(d, r, count) ==
    IF count = 0 THEN [ok |-> TRUE, shops |-> <<>>]
    ELSE shop_list_after_shop(d, Shop_from_reader(d, r), count)

\* read_shops
read_shops(r, d) ==
    LET shop_list_len_symbol == find_symbol(d, ShopListLenSymbol)
        shop_list_len == read_u32(seek(r, symbol_offset(shop_list_len_symbol.value)))
        shop_list_symbol == find_symbol(d, ShopListSymbol)
    IN  IF ~shop_list_len_symbol.some \/ ~shop_list_len.ok \/ ~shop_list_symbol.some
        THEN [ok |-> FALSE, shops |-> <<>>]
        ELSE read_shop_list(d, seek(shop_list_len.reader,
                                    symbol_offset(shop_list_symbol.value)),
                            shop_list_len.value)

\* tests.rs reserialize_any_from_content: the read domain and reader over .rodata
\* of a parsed container, then content_callback
read_content(container) ==
    LET rodata_section == indexmap_get(container.content_sections, RodataName)
        content == rodata_section.value.content
    IN  IF ~rodata_section.some THEN [ok |-> FALSE, shops |-> <<>>]
        ELSE IF ~rodata_section.value.relocations.some THEN [ok |-> FALSE, shops |-> <<>>]
        ELSE read_shops(NewReader(content, 0, TRUE),
                        NewReadDomain(content, rodata_section.value.relocations.map,
                                      container.symbols))

-----------------------------------------------------------------------------
(* Reading nested content: read_vec and read_box_nullable call their        *)
(* read_content callback, which reads a word, an optional string, or calls  *)
(* read_vec / read_box_nullable again. frames is the call stack; the top     *)
(* frame is the scope whose body is running.                                 *)

\* nesting depth of the content that is read
MaxDepth == 2

\* what a callback reads: <<"vec", "box", "u32">> is a vector of boxes of words
RECURSIVE Shapes(_)
Shapes(depth) ==
    IF depth = 0 THEN {<<"u32">>, <<"string_optional">>}
    ELSE {<<outer>> \o inner : outer \in {"vec", "box"}, inner \in Shapes(depth - 1)}
         \cup Shapes(depth - 1)

\* the 4-byte words of a section image
RECURSIVE Words(_)
Words(ws) == IF ws = <<>> THEN <<>> ELSE U32BE(Head(ws)) \o Words(Tail(ws))

\* .rodata images of six words; a non-zero word is a count or, in a pointer
\* slot, a value read_pointer_optional rejects
RodataSections ==
    {Words(<<0, 2, 0, 0, 0, 0>>), Words(<<0, 1, 0, 1, 0, 0>>), Words(<<0, 7, 0, 0, 0, 0>>),
     Words(<<0, 0, 0, 2, 7, 0>>), Words(<<7, 1, 0, 0, 0, 0>>)}

\* symbols 0..3 at offsets 0, 8, 16 and 40 (past the end of the section)
ReadSymbols ==
    <<Symbol(SymbolHeader(0, 0, 0, 0, 0, 0), <<>>), Symbol(SymbolHeader(1, 8, 4, 1, 0, 1), <<46>>),
      Symbol(SymbolHeader(3, 16, 4, 1, 0, 1), <<46, 98>>),
      Symbol(SymbolHeader(6, 40, 8, 1, 0, 1), <<115>>)>>

\* relocation of the pointer slot at offset to the symbol with that index
RelocationTo(offset, index) == Relocation(offset, index * 256 + 1, 0)

\* relocation maps: slot offset -> symbol index (9 is no symbol)
RelocationMaps ==
    {<<>>,
     (0 :> RelocationTo(0, 1)),
     (0 :> RelocationTo(0, 1)) @@ (8 :> RelocationTo(8, 2)) @@ (12 :> RelocationTo(12, 2)),
     (0 :> RelocationTo(0, 2)) @@ (16 :> RelocationTo(16, 1)) @@ (8 :> RelocationTo(8, 0)),
     (0 :> RelocationTo(0, 3)),
     (0 :> RelocationTo(0, 9))}

\* where the first read starts: on a header, inside the data, at the last word,
\* at the end of the section
StartPositions == {0, 8, 20, 24}

InitRead ==
    /\ \E inner \in RodataSections, relocations \in RelocationMaps,
          pos \in StartPositions, eof_to_end \in BOOLEAN, shape \in Shapes(MaxDepth) :
           /\ Len(shape) > 1
           /\ reader = NewReader(inner, pos, eof_to_end)
           /\ read_domain = NewReadDomain(inner, relocations, ReadSymbols)
           /\ frames = <<Frame("read_content", shape, pos, pos, ReaderGuard_new(reader), 1)>>
    /\ returned = NoReturn
    /\ ctx = NewCtx
    /\ domain = NewDomain(4, FALSE)
    /\ ops = <<>>
    /\ pc = "read"
    /\ result_buffer = <<>>
    /\ block_offsets = <<>>
    /\ symtab = <<>>
    /\ strtab = <<>>
    /\ last_local_symbol = 0
    /\ symbol_indices = <<>>
    /\ rela_rodata = <<>>
    /\ input_file = <<>>
    /\ elf_file = NoContainer
    /\ out_elf = [ok |-> FALSE, bytes |-> <<>>]
    /\ data = [ok |-> FALSE, shops |-> <<>>]
    /\ final_elf_bytes = [ok |-> FALSE, bytes |-> <<>>]
    /\ data_again = [ok |-> FALSE, shops |-> <<>>]

top == frames[Len(frames)]

\* the body of the top frame is about to read an element of this kind
reading(kind) ==
    /\ pc = "read"
    /\ frames # <<>>
    /\ top.remaining > 0
    /\ ~top.failed
    /\ Head(top.ty) = kind

\* the callback of the top frame got its callee's result: `?` on Err
resume(fs, ok) ==
    [fs EXCEPT ![Len(fs)] = IF ok THEN [@ EXCEPT !.remaining = @ - 1]
                            ELSE [@ EXCEPT !.failed = TRUE]]

\* read_fallback::<u32> as read_content
ReadFallback ==
    /\ reading("u32")
    /\ LET value == read_u32(reader)
       IN  /\ reader' = value.reader
           /\ frames' = resume(frames, value.ok)
    /\ UNCHANGED <<read_domain, returned, wvars, tvars>>

\* read_string_optional as read_content
ReadStringOptional ==
    /\ reading("string_optional")
    /\ LET value == read_string_optional(read_domain, reader)
       IN  /\ reader' = value.reader
           /\ frames' = resume(frames, value.ok)
    /\ UNCHANGED <<read_domain, returned, wvars, tvars>>

\* read_vec up to the call of its first read_content, or to its early return
ReadVec ==
    /\ reading("vec")
    /\ LET start == reader.pos
           ptr == read_pointer_optional(read_domain, reader)
           count == read_u32(ptr.reader)
           guard == ReaderGuard_new(count.reader)
       IN  IF ~ptr.ok
           THEN /\ reader' = ptr.reader
                /\ frames' = resume(frames, FALSE)
                /\ returned' = Return("read_vec", start, FALSE, FALSE, FALSE, 0, 0, ptr.reader.pos)
           ELSE IF ~count.ok
           THEN /\ reader' = count.reader
                /\ frames' = resume(frames, FALSE)
                /\ returned' = Return("read_vec", start, FALSE, FALSE, FALSE, 0, 0, count.reader.pos)
           ELSE IF ~ptr.some \/ count.value = 0
           THEN /\ reader' = count.reader
                /\ frames' = resume(frames, TRUE)
                /\ returned' = Return("read_vec", start, TRUE, TRUE, FALSE, 0, 0, count.reader.pos)
           ELSE /\ reader' = seek(count.reader, ptr.value)
                /\ frames' = Append(frames, Frame("read_vec", Tail(top.ty), start,
                                                  count.reader.pos, guard, count.value))
                /\ returned' = returned
    /\ UNCHANGED <<read_domain, wvars, tvars>>

\* read_vec from the end of its last read_content, or from the `?` on a failed
\* one, to its return: the guard is dropped on the way out
ReadVecReturn ==
    /\ pc = "read"
    /\ frames # <<>>
    /\ top.fn = "read_vec"
    /\ top.remaining = 0 \/ top.failed
    /\ LET after == ReaderGuard_drop(top.guard, reader)
       IN  /\ reader' = after
           /\ returned' = Return("read_vec", top.start, ~top.failed, TRUE, TRUE,
                                 top.entry, reader.pos, after.pos)
    /\ frames' = resume(Front(frames), ~top.failed)
    /\ UNCHANGED <<read_domain, wvars, tvars>>

\* read_box_nullable up to the call of read_content, or to its early return
ReadBoxNullable ==
    /\ reading("box")
    /\ LET start == reader.pos
           ptr == read_pointer_optional(read_domain, reader)
           guard == ReaderGuard_new(ptr.reader)
       IN  IF ~ptr.ok \/ ~ptr.some
           THEN /\ reader' = ptr.reader
                /\ frames' = resume(frames, ptr.ok)
                /\ returned' = Return("read_box_nullable", start, ptr.ok, ptr.ok, FALSE,
                                      0, 0, ptr.reader.pos)
           ELSE /\ reader' = seek(ptr.reader, ptr.value)
                /\ frames' = Append(frames, Frame("read_box_nullable", Tail(top.ty), start,
                                                  ptr.reader.pos, guard, 1))
                /\ returned' = returned
    /\ UNCHANGED <<read_domain, wvars, tvars>>

\* read_box_nullable from the end of read_content to its return
ReadBoxNullableReturn ==
    /\ pc = "read"
    /\ frames # <<>>
    /\ top.fn = "read_box_nullable"
    /\ top.remaining = 0 \/ top.failed
    /\ LET after == ReaderGuard_drop(top.guard, reader)
       IN  /\ reader' = after
           /\ returned' = Return("read_box_nullable", top.start, ~top.failed, TRUE, TRUE,
                                 top.entry, reader.pos, after.pos)
    /\ frames' = resume(Front(frames), ~top.failed)
    /\ UNCHANGED <<read_domain, wvars, tvars>>

NextRead ==
    \/ ReadFallback
    \/ ReadStringOptional
    \/ ReadVec
    \/ ReadVecReturn
    \/ ReadBoxNullable
    \/ ReadBoxNullableReturn

SpecRead == InitRead /\ [][NextRead]_vars

-----------------------------------------------------------------------------
(* Reserializing a sample: tests.rs reserialize_any_directly and             *)
(* reserialize_any_from_content with matching.rs. A sample is a shop ELF as   *)
(* the production writer emits it for a list of shops.                       *)

\* shops per sample
MaxShops == 2

\* "a", "sh"
ShopIds == {<<97>>, <<115, 104>>}

\* item lists: none, one item without requirement, an item without id followed
\* by an item with both ("abc", "a")
ItemLists ==
    {<<>>,
     <<SoldItem(SomeStr(<<97>>), NoStr)>>,
     <<SoldItem(NoStr, SomeStr(<<97>>)), SoldItem(SomeStr(<<97, 98, 99>>), SomeStr(<<97>>))>>}

Shops == {Shop(shop_id, items) : shop_id \in ShopIds, items \in ItemLists}

\* the lists of at most n shops
RECURSIVE ShopListsUpTo(_)
ShopListsUpTo(n) ==
    IF n = 0 THEN {<<>>}
    ELSE LET shorter == ShopListsUpTo(n - 1)
         IN  shorter \cup {Append(shop_list, shop) : shop_list \in shorter, shop \in Shops}

ShopLists == ShopListsUpTo(MaxShops)

NoFile == [ok |-> FALSE, bytes |-> <<>>]
NoData == [ok |-> FALSE, shops |-> <<>>]

InitRoundTrip ==
    /\ \E shop_list \in ShopLists :
           input_file = to_bytes(reassemble_elf_container(shop_list, FALSE).container).bytes
    /\ elf_file = NoContainer
    /\ out_elf = NoFile
    /\ data = NoData
    /\ final_elf_bytes = NoFile
    /\ data_again = NoData
    /\ pc = "sample"
    /\ ctx = NewCtx
    /\ domain = NewDomain(FileData_string_dedup_size, FALSE)
    /\ ops = <<>>
    /\ result_buffer = <<>>
    /\ block_offsets = <<>>
    /\ symtab = <<>>
    /\ strtab = <<>>
    /\ last_local_symbol = 0
    /\ symbol_indices = <<>>
    /\ rela_rodata = <<>>
    /\ reader = NewReader(<<>>, 0, TRUE)
    /\ read_domain = NewReadDomain(<<>>, <<>>, <<>>)
    /\ frames = <<>>
    /\ returned = NoReturn

\* let elf_file = ElfContainer::from_reader(&mut reader).unwrap();
FromReader ==
    /\ pc = "sample"
    /\ elf_file' = from_reader(input_file)
    /\ pc' = "parsed"
    /\ UNCHANGED <<input_file, out_elf, data, final_elf_bytes, data_again>>
    /\ UNCHANGED <<ctx, domain, ops, outputs, rvars>>

\* test_reserialize_directly: let out_elf = deserialized.to_bytes()?;
ReserializeDirectly ==
    /\ pc = "parsed"
    /\ elf_file.ok
    /\ out_elf' = to_bytes(elf_file.container)
    /\ pc' = "direct"
    /\ UNCHANGED <<input_file, elf_file, data, final_elf_bytes, data_again>>
    /\ UNCHANGED <<ctx, domain, ops, outputs, rvars>>

\* reserialize_any_from_content: let data = content_callback(&mut reader, domain)
ReadContent ==
    /\ pc = "parsed"
    /\ elf_file.ok
    /\ data' = read_content(elf_file.container)
    /\ pc' = "read"
    /\ UNCHANGED <<input_file, elf_file, out_elf, final_elf_bytes, data_again>>
    /\ UNCHANGED <<ctx, domain, ops, outputs, rvars>>

\* ElfContainer::get_section: a content section of that name, else a meta section
get_section(container, name) ==
    IF indexmap_get(container.content_sections, name).some
    THEN indexmap_get(container.content_sections, name)
    ELSE indexmap_get(container.meta_sections, name)

\* link_section_debug: one turn of the loop, out being what the writer holds and
\* pos the reader's position
link_word_debug(out, section, symbols, pos) ==
    LET content == section.content
        relocations == section.relocations.map
        index == relocations[pos].info \div 256
        bytes_read == IF pos + 4 <= Len(content) THEN 4 ELSE Len(content) - pos
    IN  IF ~out.ok THEN out
        ELSE IF pos \in DOMAIN relocations
        THEN IF index >= Len(symbols) THEN [ok |-> FALSE, bytes |-> <<>>]
             ELSE IF pos + 4 > Len(content) THEN [ok |-> FALSE, bytes |-> <<>>]
             ELSE IF ReadU32BE(content, pos) # 0 THEN [ok |-> FALSE, bytes |-> <<>>]
             ELSE [ok |-> TRUE,
                   bytes |-> out.bytes
                                 \o U32BE(BitOr32(symbol_offset(symbols[index + 1]), 1879048192))]
        ELSE [ok |-> TRUE, bytes |-> out.bytes \o SubSeq(content, pos + 1, pos + bytes_read)]

\* a link_section_debug that leaves the pointer slots as they are
link_section_debug_copy(section, symbols) == [ok |-> TRUE, bytes |-> section.content]

\* link_section_debug: the section's content with every relocated word replaced
\* by symbol.offset() | 0x70000000
link_section_debug(section, symbols) ==
    LET words == (Len(section.content) + 3) \div 4
        f[k \in 0..words] ==
            IF k = 0 THEN [ok |-> TRUE, bytes |-> <<>>]
            ELSE LET prev == f[k - 1]
                 IN  link_word_debug(prev, section, symbols, 4 * (k - 1))
    IN  IF section.relocations.some THEN f[words]
        ELSE [ok |-> TRUE, bytes |-> section.content]

\* test_reserialize_from_content, write_section_debug: the section exists in the
\* original and its linked content equals the re-serialized section
section_matches_debug(original, section) ==
    LET original_section == get_section(original, section.name)
        original_content == link_section_debug(original_section.value, original.symbols)
    IN  /\ original_section.some
        /\ original_content.ok
        /\ original_content.bytes = section.content

\* test_reserialize_from_content: the two loops over the sections of debug_elf
sections_match_debug(original, debug_elf) ==
    /\ \A i \in 1..Len(debug_elf.content_sections) :
           debug_elf.content_sections[i].name # <<>>
           => section_matches_debug(original, debug_elf.content_sections[i])
    /\ \A i \in 1..Len(debug_elf.meta_sections) :
           section_matches_debug(original, debug_elf.meta_sections[i])

\* the content of a section of a container, empty when there is none
section_content(container, name) ==
    IF get_section(container, name).some THEN get_section(container, name).value.content
    ELSE <<>>

\* test_reserialize_from_content: reassemble_elf_container(deserialized, true)?
\* and the comparison of its sections with the linked sections of the
\* original, then reassemble_elf_container(deserialized, false)? and
\* final_elf.to_bytes()?; the sections of debug_elf are kept in result_buffer,
\* symtab, strtab and rela_rodata
ReserializeFromContent ==
    /\ pc = "read"
    /\ data.ok
    /\ LET debug_elf == reassemble_elf_container(data.shops, TRUE)
           final_elf == reassemble_elf_container(data.shops, FALSE)
           matched == debug_elf.ok /\ sections_match_debug(elf_file.container, debug_elf.container)
       IN  /\ result_buffer' = section_content(debug_elf.container, RodataName)
           /\ symtab' = section_content(debug_elf.container, SymtabName)
           /\ strtab' = section_content(debug_elf.container, StrtabName)
           /\ rela_rodata' = section_content(debug_elf.container, RelaPrefix \o RodataName)
           /\ final_elf_bytes' = IF matched /\ final_elf.ok THEN to_bytes(final_elf.container)
                                 ELSE NoFile
           /\ pc' = IF ~debug_elf.ok THEN "failed"
                    ELSE IF ~matched THEN "mismatch"
                    ELSE "rewritten"
    /\ UNCHANGED <<input_file, elf_file, out_elf, data, data_again>>
    /\ UNCHANGED <<ctx, domain, ops, block_offsets, last_local_symbol, symbol_indices, rvars>>

\* the rewritten file is parsed and read like the sample was
ReadBack ==
    /\ pc = "rewritten"
    /\ final_elf_bytes.ok
    /\ LET rewritten == from_reader(final_elf_bytes.bytes)
       IN  data_again' = IF rewritten.ok THEN read_content(rewritten.container) ELSE NoData
    /\ pc' = "reread"
    /\ UNCHANGED <<input_file, elf_file, out_elf, data, final_elf_bytes>>
    /\ UNCHANGED <<ctx, domain, ops, outputs, rvars>>

NextRoundTrip ==
    \/ FromReader
    \/ ReserializeDirectly
    \/ ReadContent
    \/ ReserializeFromContent
    \/ ReadBack

SpecRoundTrip == InitRoundTrip /\ [][NextRoundTrip]_vars

-----------------------------------------------------------------------------
(* Symbol synthesis on its own: write_symtab and write_relocations applied   *)
(* to the declarations a serialization pass may leave behind                *)

\* declarations per pass
MaxDecls == 3

\* "mapA", "mapAB", "mapAZ", "n", "g"
MapA == <<109, 97, 112, 65>>
MapAB == <<109, 97, 112, 65, 66>>
MapAZ == <<109, 97, 112, 65, 90>>

\* the names a declaration may carry when write_symtab starts: none, an
\* initial character ('l', 's'), a name to be mangled, a global name
DeclNames ==
    {SymNone, Internal(108), Internal(115), InternalNamed(MapA), InternalNamed(MapAB),
     InternalNamed(MapAZ), InternalNamed(<<110>>), Unmangled(<<103>>)}

\* two blocks of 8 bytes: the root block and one allocated block
DeclBlocks == <<[align |-> 0, bytes |-> Zeros(8)], [align |-> 4, bytes |-> Zeros(8)]>>

\* the start of either block
DeclTokens == {HeapToken(1, 0), HeapToken(2, 0)}

Decls == {SymbolDeclaration(name, token, 8) : name \in DeclNames, token \in DeclTokens}

\* the declaration lists of at most n entries
RECURSIVE DeclListsUpTo(_)
DeclListsUpTo(n) ==
    IF n = 0 THEN {<<>>}
    ELSE LET shorter == DeclListsUpTo(n - 1)
         IN  shorter \cup {Append(decls, decl) : decls \in shorter, decl \in Decls}

\* the writer after a pass that wrote one word and one pointer into the root
\* block, the pointer targeting the allocated block
DeclCtx ==
    [blocks |-> DeclBlocks, stack |-> <<1>>,
     refs |-> <<[block |-> 1, pos |-> 4, token |-> HeapToken(2, 0)]>>]

\* reassemble_elf_container after ctx.to_buffer
InitSymtab ==
    /\ \E decls \in DeclListsUpTo(MaxDecls) :
           LET r == to_buffer(DeclCtx, [NewDomain(FileData_string_dedup_size, FALSE)
                                           EXCEPT !.symbol_declarations = decls])
           IN  /\ domain = r.domain
               /\ result_buffer = r.buffer
               /\ block_offsets = r.block_offsets
    /\ ctx = DeclCtx
    /\ ops = <<>>
    /\ pc = "finalized"
    /\ symtab = <<>>
    /\ strtab = <<>>
    /\ last_local_symbol = 0
    /\ symbol_indices = <<>>
    /\ rela_rodata = <<>>
    /\ reader = NewReader(<<>>, 0, TRUE)
    /\ read_domain = NewReadDomain(<<>>, <<>>, <<>>)
    /\ frames = <<>>
    /\ returned = NoReturn
    /\ input_file = <<>>
    /\ elf_file = NoContainer
    /\ out_elf = NoFile
    /\ data = NoData
    /\ final_elf_bytes = NoFile
    /\ data_again = NoData

NextSymtab ==
    \/ WriteSymtab
    \/ WriteRelocations

SpecSymtab == InitSymtab /\ [][NextSymtab]_vars

-----------------------------------------------------------------------------
(* Properties of the write domain and of symbol/relocation synthesis       *)

\* the NUL-terminated string at 0-based offset off of buf
c_str_at(buf, off) ==
    LET ends == {i \in (off + 1)..Len(buf) : buf[i] = 0}
        e == CHOOSE i \in ends : \A j \in ends : i <= j
    IN  SubSeq(buf, off + 1, e - 1)

\* to_buffer has run: result_buffer, block_offsets and the pending relocations exist
finalized == pc \in {"finalized", "symtab", "rela", "panic"}

\* the resolved byte offset of the i-th pointer slot emitted with write_token
slot_offset(i) == block_offsets[ctx.refs[i].block] + ctx.refs[i].pos

RECURSIVE token_count(_)
RECURSIVE token_count_all(_)
RECURSIVE token_count_each(_)

\* the number of write_token calls the write-domain call o makes, by its definition
token_count(o) ==
    CASE o.op = "write_fallback" -> 0
      [] o.op = "write_string" -> 1
      [] o.op = "write_string_optional" -> IF o.value.some THEN 1 ELSE 0
      [] o.op = "write_box" -> 1 + token_count_all(o.content[1])
      [] o.op = "write_slice" -> 1 + token_count_each(o.content)
      [] o.op = "write_null_terminated_slice" ->
            1 + token_count_each(o.content) + token_count_all(o.dflt)
      [] o.op = "write_symbol" -> token_count_all(o.content[1])

token_count_all(body) ==
    IF body = <<>> THEN 0 ELSE token_count(Head(body)) + token_count_all(Tail(body))

token_count_each(values) ==
    IF values = <<>> THEN 0
    ELSE token_count_all(Head(values)) + token_count_each(Tail(values))

RECURSIVE strings_written(_)
RECURSIVE strings_written_all(_)
RECURSIVE strings_written_each(_)

\* the strings the call o hands to write_string with deduplicate enabled
strings_written(o) ==
    CASE o.op = "write_fallback" -> {}
      [] o.op = "write_string" -> IF o.deduplicate THEN {o.value.v} ELSE {}
      [] o.op = "write_string_optional" ->
            IF o.value.some /\ o.deduplicate THEN {o.value.v} ELSE {}
      [] o.op = "write_box" -> strings_written_all(o.content[1])
      [] o.op = "write_slice" -> strings_written_each(o.content)
      [] o.op = "write_null_terminated_slice" ->
            strings_written_each(o.content) \cup strings_written_all(o.dflt)
      [] o.op = "write_symbol" -> strings_written_all(o.content[1])

strings_written_all(body) ==
    IF body = <<>> THEN {}
    ELSE strings_written(Head(body)) \cup strings_written_all(Tail(body))

strings_written_each(values) ==
    IF values = <<>> THEN {}
    ELSE strings_written_all(Head(values)) \cup strings_written_each(Tail(values))

\* C4: in the finalized content section every relocated offset holds 00 00 00 00
\* (production mode) or the big-endian word target | 0x70000000 (debug mode), and
\* every relocation sits on a pointer slot (emitted with write_token) whose token
\* resolves to the relocation's target.
C4_PointerInvariant ==
    finalized =>
        \A k \in 1..Len(domain.relocations) :
            LET r == domain.relocations[k]
            IN  /\ r.base_location + 4 <= Len(result_buffer)
                /\ SubSeq(result_buffer, r.base_location + 1, r.base_location + 4)
                       = IF domain.apply_debug_relocations
                         THEN U32BE(r.target_location + 1879048192)
                         ELSE <<0, 0, 0, 0>>
                /\ \E i \in 1..Len(ctx.refs) :
                       /\ slot_offset(i) = r.base_location
                       /\ resolve(ctx.refs[i].token, block_offsets) = r.target_location

\* a debug-mode section with a relocated slot whose target is not offset 0
C4_Witness ==
    /\ pc = "finalized"
    /\ domain.apply_debug_relocations
    /\ \E k \in 1..Len(domain.relocations) : domain.relocations[k].target_location > 0

\* the offset field of the k-th entry of a rela image
rela_offset(bytes, k) == ReadU32BE(bytes, 12 * (k - 1))

\* C5: the entries write_relocations emits are strictly increasing in offset, for
\* the pending list of any sequence of write-domain calls.
C5_RelaStrictlyIncreasing ==
    pc = "rela" =>
        /\ Len(rela_rodata) = 12 * Len(ctx.refs)
        /\ \A k \in 1..(Len(rela_rodata) \div 12 - 1) :
               rela_offset(rela_rodata, k) < rela_offset(rela_rodata, k + 1)

\* two pointer slots back to back (offsets b and b + 4) emitted as neighbours, in a
\* pass whose slots were registered out of offset order
C5_Witness ==
    /\ pc = "rela"
    /\ \E k \in 1..(Len(rela_rodata) \div 12 - 1) :
           rela_offset(rela_rodata, k + 1) = rela_offset(rela_rodata, k) + 4
    /\ \E i \in 1..(Len(ctx.refs) - 1) : slot_offset(i) > slot_offset(i + 1)

\* the st_name field of the k-th entry of a symtab image
symtab_st_name(bytes, k) == ReadU32BE(bytes, 16 * (k - 1))

\* C6: in a synthesized .symtab/.strtab pair the entries with st_name # 0 point to
\* pairwise distinct NUL-terminated strings.
C6_SymbolNamesDistinct ==
    pc \in {"symtab", "rela"} =>
        \A i, j \in 1..(Len(symtab) \div 16) :
            (/\ i < j
             /\ symtab_st_name(symtab, i) # 0
             /\ symtab_st_name(symtab, j) # 0)
            => c_str_at(strtab, symtab_st_name(symtab, i))
                   # c_str_at(strtab, symtab_st_name(symtab, j))

\* the block a token points to starts with the NUL-terminated string value
holds_string(c, token, value) ==
    /\ token.block \in 1..Len(c.blocks)
    /\ token.offset = 0
    /\ Len(c.blocks[token.block].bytes) >= Len(value) + 1
    /\ SubSeq(c.blocks[token.block].bytes, 1, Len(value) + 1) = value \o <<0>>

\* C7: a deduplicate-enabled write_string at a position >= string_dedup_size
\* allocates a new block even for a string written before; at a position below
\* the cutoff a string written before (by a deduplicate-enabled call) shares the
\* existing allocation: no new block, no new symbol, the token emitted is the
\* existing one.
C7_DedupCutoff ==
    pc = "serialize" =>
        \A value \in Strings :
            LET r == write_string([ctx |-> ctx, domain |-> domain], value,
                                  [deduplicate |-> TRUE])
                emitted == Last(r.ctx.refs)
            IN  /\ Len(r.ctx.refs) = Len(ctx.refs) + 1
                /\ emitted.block = 1 /\ emitted.pos = position(ctx)
                /\ position(ctx) >= domain.string_dedup_size =>
                       /\ Len(r.ctx.blocks) = Len(ctx.blocks) + 1
                       /\ emitted.token = HeapToken(Len(ctx.blocks) + 1, 0)
                       /\ holds_string(r.ctx, emitted.token, value)
                /\ (/\ position(ctx) < domain.string_dedup_size
                    /\ value \in strings_written_all(ops)) =>
                       /\ Len(r.ctx.blocks) = Len(ctx.blocks)
                       /\ holds_string(ctx, emitted.token, value)
                       /\ r.domain = domain

\* past the cutoff with "abc" written before, in a pass where an earlier write
\* of it below the cutoff shared an allocation (two slots hold one token)
C7_Witness ==
    /\ pc = "serialize"
    /\ position(ctx) >= domain.string_dedup_size
    /\ <<97, 98, 99>> \in strings_written_all(ops)
    /\ \E i, j \in 1..Len(ctx.refs) :
           /\ i < j
           /\ ctx.refs[i].token = ctx.refs[j].token
           /\ holds_string(ctx, ctx.refs[i].token, <<97, 98, 99>>)

\* C8: after finalization the pending relocation list holds exactly one
\* RelDeclaration per pointer slot emitted with write_token, at that slot's byte
\* offset, and none elsewhere; write_string_optional(None) writes a zero u32 and
\* records no slot, no relocation and no symbol.
C8_OneRelocationPerSlot ==
    /\ finalized =>
           /\ Len(ctx.refs) = token_count_all(ops)
           /\ Len(domain.relocations) = token_count_all(ops)
           /\ \A i \in 1..Len(ctx.refs) :
                  Cardinality({k \in 1..Len(domain.relocations) :
                                   domain.relocations[k].base_location = slot_offset(i)}) = 1
           /\ \A k \in 1..Len(domain.relocations) :
                  \E i \in 1..Len(ctx.refs) :
                      domain.relocations[k].base_location = slot_offset(i)
    /\ pc = "serialize" =>
           LET r == write_string_optional([ctx |-> ctx, domain |-> domain], NoStr,
                                          [deduplicate |-> TRUE])
           IN  /\ r.ctx = write_bytes(ctx, <<0, 0, 0, 0>>)
               /\ r.domain = domain

\* a finalized pass that called write_string_optional(None) and emitted slots
C8_Witness ==
    /\ pc = "finalized"
    /\ Len(domain.relocations) >= 2
    /\ \E i \in 1..Len(ops) :
           ops[i].op = "write_string_optional" /\ ~ops[i].value.some

\* C9: when write_relocations runs, symbol_indices has an entry for the
\* target_location of every pending relocation.
C9_LookupNeverFails ==
    pc = "symtab" =>
        \A k \in 1..Len(domain.relocations) :
            domain.relocations[k].target_location \in DOMAIN symbol_indices

-----------------------------------------------------------------------------
(* Properties of the read domain                                            *)

\* C10 as stated: whenever a scoped_reader_pos scope is left, on success or on
\* error of the body, the reader position equals the position at scope entry;
\* consequently after read_vec returns the reader is exactly 8 bytes past where
\* it started and after read_box_nullable exactly 4 bytes past
C10_AlwaysPastHeader ==
    /\ returned.scoped => returned.pos = returned.entry
    /\ returned.fn = "read_vec" => returned.pos = returned.start + 8
    /\ returned.fn = "read_box_nullable" => returned.pos = returned.start + 4

\* C10: whenever a scoped_reader_pos scope is left, on success or on error of
\* the body, the reader position equals the position at scope entry;
\* consequently when read_vec has read its pointer word and its count word
\* without error it returns with the reader exactly 8 bytes past where it
\* started, and when read_box_nullable has read its pointer word without error
\* it returns exactly 4 bytes past, however far the nested reads moved the reader
C10_ScopedRestore ==
    /\ returned.scoped => returned.pos = returned.entry
    /\ returned.fn = "read_vec" /\ returned.header_ok => returned.pos = returned.start + 8
    /\ returned.fn = "read_box_nullable" /\ returned.header_ok =>
           returned.pos = returned.start + 4

\* a read_vec that was called inside another scope returns an error of its body
\* after the nested reads moved the reader away from the scope entry
C10_Witness ==
    /\ returned.fn = "read_vec"
    /\ returned.scoped
    /\ ~returned.ok
    /\ returned.left_at # returned.entry
    /\ returned.pos = returned.start + 8
    /\ Len(frames) > 1

-----------------------------------------------------------------------------
(* Properties of reserialization                                            *)

\* the content of a section of the parsed sample
sample_section(name) ==
    IF name = RodataName
    THEN indexmap_get(elf_file.container.content_sections, name).value.content
    ELSE indexmap_get(elf_file.container.meta_sections, name).value.content

\* C1: every sample parses with ElfContainer::from_reader, and serializing the
\* parsed container with ElfContainer::to_bytes yields exactly the bytes of the
\* sample
C1_DirectContainerIdentity ==
    /\ pc \in {"parsed", "direct"} => elf_file.ok
    /\ pc = "direct" => out_elf.ok /\ out_elf.bytes = input_file

\* a sample with relocations whose .rodata ends off a 4-byte boundary, so that
\* to_bytes has to regenerate the padding in front of .symtab, was reserialized
C1_Witness ==
    /\ pc = "direct"
    /\ out_elf.bytes = input_file
    /\ Len(sample_section(RodataName)) % 4 # 0
    /\ Len(sample_section(RelaPrefix \o RodataName)) >= 24

\* the rebuild of the records stopped: reassemble_elf_container failed or a
\* section comparison of test_reserialize_from_content did
rebuild_stopped == pc \in {"failed", "mismatch"}

\* C2: every sample reads into typed records, and rebuilding the records with
\* reassemble_elf_container in production mode followed by to_bytes is reached
\* and produces bytes equal to the sample
C2_ByteIdentity ==
    /\ ~rebuild_stopped
    /\ pc \in {"read", "rewritten"} => data.ok
    /\ pc = "rewritten" => final_elf_bytes.ok /\ final_elf_bytes.bytes = input_file

\* a sample of two shops, one of them selling an item without id and an item
\* with both strings, was rebuilt from its records
C2_Witness ==
    /\ pc = "rewritten"
    /\ final_elf_bytes.bytes = input_file
    /\ Len(data.shops) = 2
    /\ \E i \in 1..2 : /\ Len(data.shops[i].items) = 2
                       /\ data.shops[i].items[1].item_id = NoStr
                       /\ data.shops[i].items[2].requirement # NoStr

-----------------------------------------------------------------------------
(* The terminator of a shop's item list                                     *)

\* the read domain over .rodata of a parsed container
rodata_domain(container) ==
    LET rodata_section == indexmap_get(container.content_sections, RodataName).value
    IN  NewReadDomain(rodata_section.content, rodata_section.relocations.map,
                      container.symbols)

\* where the item list of the k-th shop record starts: the target of the pointer
\* in the record's second word
items_offset(d, k) ==
    read_pointer(d, NewReader(d.rodata_section,
                              symbol_offset(find_symbol(d, ShopListSymbol).value)
                                  + 8 * (k - 1) + 4,
                              TRUE)).value

\* the element at 0-based position n of the list at offset p is the image of
\* SoldItem::default(): eight zero bytes, neither word relocated
sentinel_at(d, p, n) ==
    /\ p + 8 * n + 8 <= Len(d.rodata_section)
    /\ \A i \in 1..8 : d.rodata_section[p + 8 * n + i] = 0
    /\ p + 8 * n \notin DOMAIN d.relocations
    /\ p + 8 * n + 4 \notin DOMAIN d.relocations

\* the block at offset p holds exactly count elements: a symbol at p has that size
list_block_holds(d, p, count) ==
    \E i \in 1..Len(d.symbols) :
        /\ d.symbols[i].header.st_value = p
        /\ d.symbols[i].header.st_size = 8 * count

\* in the section of d every item list of shops is followed by exactly one
\* default element that the records do not show
sentinel_hidden(d, shops) ==
    \A k \in 1..Len(shops) :
        /\ \A j \in 1..Len(shops[k].items) : shops[k].items[j] # SoldItem_default
        /\ \A j \in 0..(Len(shops[k].items) - 1) : ~sentinel_at(d, items_offset(d, k), j)
        /\ sentinel_at(d, items_offset(d, k), Len(shops[k].items))
        /\ list_block_holds(d, items_offset(d, k), Len(shops[k].items) + 1)

\* C11: a shop's item list is written as its items followed by exactly one
\* SoldItem::default(); reading collects the items up to but excluding that
\* element, so the records never show it, and the rewritten file has it again
C11_SentinelHidden ==
    /\ pc \in {"read", "rewritten", "reread"} =>
           /\ data.ok
           /\ sentinel_hidden(rodata_domain(elf_file.container), data.shops)
    /\ pc \in {"rewritten", "reread"} =>
           /\ final_elf_bytes.ok
           /\ from_reader(final_elf_bytes.bytes).ok
           /\ sentinel_hidden(rodata_domain(from_reader(final_elf_bytes.bytes).container),
                              data.shops)

\* the records of a shop without items and of a shop with two items were rewritten
C11_Witness ==
    /\ pc = "rewritten"
    /\ final_elf_bytes.ok
    /\ Len(data.shops) = 2
    /\ data.shops[1].items = <<>>
    /\ Len(data.shops[2].items) = 2
    /\ sentinel_at(rodata_domain(elf_file.container),
                   items_offset(rodata_domain(elf_file.container), 2), 2)

-----------------------------------------------------------------------------
(* Reading one pointer slot: read_pointer_optional, read_pointer and         *)
(* read_string on the first word of a .rodata image, over a symbol map built *)
(* from a .symtab image the way ElfContainer::from_reader builds it.         *)

\* entries of a hand-made .symtab
MaxSyms == 3

\* "\0a\0b\0": st_name 0 is "", 1 is "a", 3 is "b"
PointerStrtab == <<0, 97, 0, 98, 0>>

\* the section names by index: "", ".rodata"
PointerSectionNames == <<<<>>, RodataName>>

\* local symbols named "", "a" or "b" at offset 4 or 6
PointerEntries == {SymbolHeaderBytes(st_name, st_value, 0, 1, 0, 1) : st_name \in {0, 1, 3}, st_value \in {4, 6}}

RECURSIVE SymtabsUpTo(_)
SymtabsUpTo(n) ==
    IF n = 0 THEN {<<>>}
    ELSE SymtabsUpTo(n - 1)
         \cup {table \o entry : table \in {t \in SymtabsUpTo(n - 1) : Len(t) = 16 * (n - 1)},
                                entry \in PointerEntries}

\* the table write_symtab emits for one global symbol "g" at offset 8
WrittenTable == write_symtab(initial_strtab(CppFileName), <<0, 8>>, <<SymbolDeclaration(Unmangled(<<103>>), HeapToken(2, 0), 4)>>)

\* the .symtab and .strtab images a pointer is read against
PointerTables ==
    {[symtab |-> table, strtab |-> PointerStrtab] : table \in SymtabsUpTo(MaxSyms)}
        \cup {[symtab |-> WrittenTable.symtab, strtab |-> WrittenTable.strtab]}

\* the symbol index of the slot's relocation; 15 is where WrittenTable has "g"
RelocationIndexes == (0..MaxSyms) \cup {15}

\* the slot's relocation, if it has one
SlotRelocations == {<<>>} \cup {(0 :> RelocationTo(0, index)) : index \in RelocationIndexes}

\* .rodata: the slot, then "a" at 4, "b" at 6 and "c" at 8
PointerRodata(slot) == U32BE(slot) \o <<97, 0, 98, 0, 99, 0, 0, 0>>

\* what a pointer read returned: Ok(Some(value)), Ok(None) or Err
PointerReturn(fn, result) ==
    [fn |-> fn, ok |-> result.ok,
     some |-> IF fn = "read_string" THEN result.ok ELSE result.some,
     value |-> result.value, pos |-> result.reader.pos]

InitPointer ==
    /\ \E table \in PointerTables, relocations \in SlotRelocations, slot \in {0, 7} :
           /\ symtab = table.symtab
           /\ strtab = table.strtab
           /\ reader = NewReader(PointerRodata(slot), 0, TRUE)
           /\ read_domain =
                  NewReadDomain(PointerRodata(slot), relocations,
                                read_symbols(read_symbol_headers(table.symtab),
                                             PointerSectionNames, table.strtab).symbols)
    /\ frames = <<>>
    /\ returned = NoReturn
    /\ ctx = NewCtx
    /\ domain = NewDomain(4, FALSE)
    /\ ops = <<>>
    /\ pc = "pointer"
    /\ result_buffer = <<>>
    /\ block_offsets = <<>>
    /\ last_local_symbol = 0
    /\ symbol_indices = <<>>
    /\ rela_rodata = <<>>
    /\ input_file = <<>>
    /\ elf_file = NoContainer
    /\ out_elf = NoFile
    /\ data = NoData
    /\ final_elf_bytes = NoFile
    /\ data_again = NoData

\* one call of a pointer read on the slot
PointerRead(fn, result) ==
    /\ returned' = PointerReturn(fn, result)
    /\ reader' = result.reader
    /\ pc' = "returned"
    /\ UNCHANGED <<ctx, domain, ops, result_buffer, block_offsets, symtab, strtab,
                   last_local_symbol, symbol_indices, rela_rodata, read_domain, frames, tvars>>

\* the slot is still to be read
at_slot == pc = "pointer"

ReadPointerOptional ==
    /\ at_slot
    /\ PointerRead("read_pointer_optional", read_pointer_optional(read_domain, reader))

ReadPointer ==
    /\ at_slot
    /\ PointerRead("read_pointer", read_pointer(read_domain, reader))

ReadString ==
    /\ at_slot
    /\ PointerRead("read_string", read_string(read_domain, reader))

NextPointer ==
    \/ ReadPointerOptional
    \/ ReadPointer
    \/ ReadString

SpecPointer == InitPointer /\ [][NextPointer]_vars

-----------------------------------------------------------------------------
(* Parsing damaged files: ElfContainer::from_reader on a sample whose        *)
(* section header table names one section differently                        *)

\* offsets of names in SH_STRING_TAB: "", ".symtab", ".strtab", ".shstrtab",
\* ".rela.rodata", ".rodata", "rodata"
SectionNameOffsets == {0, 1, 9, 17, 27, 32, 33}

\* the section headers of a sample after the null header: .rodata,
\* .rela.rodata, .shstrtab, .symtab, .strtab
RenamedHeaders == 1..5

\* the 0-based offset of field at of section header k (from 0) of file
sh_field_offset(file, k, at) == ReadU32BE(file, offset_of_e_shoff) + 40 * k + at

\* file with the sh_name of section header k set to name_offset
rename_section(file, k, name_offset) ==
    Overwrite(file, sh_field_offset(file, k, 0), U32BE(name_offset))

\* the samples: what the production writer emits for fewer than MaxShops shops
ContainerSamples ==
    {to_bytes(reassemble_elf_container(shop_list, FALSE).container).bytes :
        shop_list \in ShopListsUpTo(MaxShops - 1)}

InitContainer ==
    /\ \E file \in ContainerSamples, k \in RenamedHeaders, name_offset \in SectionNameOffsets :
           input_file = rename_section(file, k, name_offset)
    /\ elf_file = NoContainer
    /\ out_elf = NoFile
    /\ data = NoData
    /\ final_elf_bytes = NoFile
    /\ data_again = NoData
    /\ pc = "sample"
    /\ ctx = NewCtx
    /\ domain = NewDomain(FileData_string_dedup_size, FALSE)
    /\ ops = <<>>
    /\ result_buffer = <<>>
    /\ block_offsets = <<>>
    /\ symtab = <<>>
    /\ strtab = <<>>
    /\ last_local_symbol = 0
    /\ symbol_indices = <<>>
    /\ rela_rodata = <<>>
    /\ reader = NewReader(<<>>, 0, TRUE)
    /\ read_domain = NewReadDomain(<<>>, <<>>, <<>>)
    /\ frames = <<>>
    /\ returned = NoReturn

NextContainer ==
    \/ FromReader
    \/ ReserializeDirectly

SpecContainer == InitContainer /\ [][NextContainer]_vars

-----------------------------------------------------------------------------
(* Building a container through its add_* methods and serializing it:       *)
(* sections of any alignment and length, added in any order                  *)

\* entries of the .rela.rodata content handed to add_content_section_with_relocations
MaxRelocations == 1

\* the sh_addralign values sections are added with
SectionAligns == {1, 4, 16}

\* .rodata contents of 5 and of 8 bytes, .strtab contents of 1 and of 6 bytes
RodataContents == {<<1, 2, 3, 4, 5>>, <<1, 2, 3, 4, 5, 6, 7, 8>>}
StrtabContents == {<<0>>, <<0, 97, 46, 99, 112, 0>>}

\* a .rela.rodata content of n entries
RelaContent(n) == IF n = 0 THEN <<>> ELSE U32BE(0) \o U32BE(769) \o U32BE(0) \o Zeros(12 * (n - 1))

\* the container has a section of that name
has_content_section(container, name) == indexmap_get(container.content_sections, name).some

has_meta_section(container, name) == indexmap_get(container.meta_sections, name).some

InitBytes ==
    /\ elf_file = [ok |-> TRUE, container |-> NewElfContainer(reassembled_header)]
    /\ pc = "building"
    /\ input_file = <<>>
    /\ out_elf = NoFile
    /\ data = NoData
    /\ final_elf_bytes = NoFile
    /\ data_again = NoData
    /\ ctx = NewCtx
    /\ domain = NewDomain(FileData_string_dedup_size, FALSE)
    /\ ops = <<>>
    /\ result_buffer = <<>>
    /\ block_offsets = <<>>
    /\ symtab = <<>>
    /\ strtab = <<>>
    /\ last_local_symbol = 0
    /\ symbol_indices = <<>>
    /\ rela_rodata = <<>>
    /\ reader = NewReader(<<>>, 0, TRUE)
    /\ read_domain = NewReadDomain(<<>>, <<>>, <<>>)
    /\ frames = <<>>
    /\ returned = NoReturn

\* one add_* call: the container changes, nothing else does
Added(container) ==
    /\ elf_file' = [elf_file EXCEPT !.container = container]
    /\ UNCHANGED <<input_file, out_elf, data, final_elf_bytes, data_again, wvars, rvars>>

\* result.add_content_section(".rodata", align, content)
AddContentSection ==
    /\ pc = "building"
    /\ ~has_content_section(elf_file.container, RodataName)
    /\ \E align \in SectionAligns, content \in RodataContents :
           Added(add_content_section_inner(elf_file.container, RodataName, align, content))

\* result.add_content_section_with_relocations(".rodata", align, content, relocations)
AddContentSectionWithRelocations ==
    /\ pc = "building"
    /\ ~has_content_section(elf_file.container, RodataName)
    /\ \E align \in SectionAligns, content \in RodataContents, n \in 0..MaxRelocations :
           Added(add_content_section_with_relocations(elf_file.container, RodataName, align,
                                                      content, RelaContent(n)))

\* result.add_string_table_raw(".shstrtab", 0, align, SH_STRING_TAB.to_owned())
AddSectionNames ==
    /\ pc = "building"
    /\ ~has_meta_section(elf_file.container, ShstrtabName)
    /\ \E align \in {1, 4} :
           Added(add_string_table_raw(elf_file.container, ShstrtabName, 0, align, SH_STRING_TAB))

\* result.add_string_table_raw(".strtab", 0, align, strtab)
AddStringTable ==
    /\ pc = "building"
    /\ ~has_meta_section(elf_file.container, StrtabName)
    /\ \E align \in {1, 4}, content \in StrtabContents :
           Added(add_string_table_raw(elf_file.container, StrtabName, 0, align, content))

\* result.add_symbol_table_raw(".symtab", 0, 1, align, symtab)
AddSymbolTable ==
    /\ pc = "building"
    /\ ~has_meta_section(elf_file.container, SymtabName)
    /\ \E align \in {4, 16} :
           Added(add_symbol_table_raw(elf_file.container, SymtabName, 0, 1, align, Zeros(16)))

\* container.to_bytes(); the three meta sections it indexes are there
ToBytes ==
    /\ pc = "building"
    /\ has_meta_section(elf_file.container, ShstrtabName)
    /\ has_meta_section(elf_file.container, SymtabName)
    /\ has_meta_section(elf_file.container, StrtabName)
    /\ out_elf' = to_bytes(elf_file.container)
    /\ pc' = "direct"
    /\ UNCHANGED <<input_file, elf_file, data, final_elf_bytes, data_again>>
    /\ UNCHANGED <<ctx, domain, ops, outputs, rvars>>

NextBytes ==
    \/ AddContentSection
    \/ AddContentSectionWithRelocations
    \/ AddSectionNames
    \/ AddStringTable
    \/ AddSymbolTable
    \/ ToBytes

SpecBytes == InitBytes /\ [][NextBytes]_vars

-----------------------------------------------------------------------------
(* A fresh SymbolNameGenerator and its successive next calls                *)

\* calls of next made on one generator: the first three-character tail is the
\* 8650th
MaxTails == 8660

\* the other variables of a specification that runs calls on their own
CallsOnly ==
    /\ pc = "calls"
    /\ ctx = NewCtx
    /\ domain = NewDomain(FileData_string_dedup_size, FALSE)
    /\ ops = <<>>
    /\ result_buffer = <<>>
    /\ block_offsets = <<>>
    /\ symtab = <<>>
    /\ strtab = <<>>
    /\ last_local_symbol = 0
    /\ symbol_indices = <<>>
    /\ rela_rodata = <<>>
    /\ reader = NewReader(<<>>, 0, TRUE)
    /\ read_domain = NewReadDomain(<<>>, <<>>, <<>>)
    /\ input_file = <<>>
    /\ elf_file = NoContainer
    /\ out_elf = NoFile
    /\ data = NoData
    /\ final_elf_bytes = NoFile
    /\ data_again = NoData

\* SymbolNameGenerator::new(); no tail returned yet
InitNameGen ==
    /\ CallsOnly
    /\ frames = NewNameGen
    /\ returned = [calls |-> 0, tail |-> <<>>]

\* name_gen.next()
NextTail ==
    /\ pc = "calls"
    /\ returned.calls < MaxTails
    /\ frames' = name_gen_next(frames).gen
    /\ returned' = [calls |-> returned.calls + 1, tail |-> name_gen_next(frames).tail]
    /\ UNCHANGED <<wvars, reader, read_domain, tvars>>

SpecNameGen == InitNameGen /\ [][NextTail]_vars

-----------------------------------------------------------------------------
(* The comparator of the InternalNamed sort, applied to three names         *)

\* the longest name compared
MaxNameLen == 3

\* 'O' and 'P': the characters on either side of the comparator's limit
NameChars == {79, 80}

RECURSIVE NamesUpTo(_)
\* the names of 1 to n characters
NamesUpTo(n) ==
    IF n = 0 THEN {}
    ELSE IF n = 1 THEN {<<ch>> : ch \in NameChars}
    ELSE LET shorter == NamesUpTo(n - 1)
         IN  shorter \cup {Append(name, ch) : name \in {m \in shorter : Len(m) = n - 1}, ch \in NameChars}

\* three InternalNamed declarations, in the order they were declared
InitCompare ==
    /\ CallsOnly
    /\ \E name1, name2, name3 \in NamesUpTo(MaxNameLen) : frames = <<name1, name2, name3>>
    /\ returned = NoReturn

\* symbols.sort_by(..): every comparison the sort may ask for, and its result
SortNamed ==
    /\ pc = "calls"
    /\ returned' = [cmp |-> [i \in 1..3 |-> [j \in 1..3 |-> named_cmp(frames[i], frames[j])]],
                    sorted |-> SortBy(frames, LAMBDA a, b : named_cmp(a, b) = "Less")]
    /\ pc' = "compared"
    /\ UNCHANGED <<ctx, domain, ops, outputs, reader, read_domain, frames, tvars>>

SpecCompare == InitCompare /\ [][SortNamed]_vars

-----------------------------------------------------------------------------
(* FileData through Serialize and Deserialize (formats/mod.rs)              *)

\* the longest list a FileData value holds
MaxElements == 2

\* the element type of each variant: MaplinkArea, MapGroup, Shop, DisposArea
Variants == {"Maplink", "MapId", "Shop", "Dispos"}

ElementType(variant) ==
    CASE variant = "Maplink" -> "MaplinkArea"
      [] variant = "MapId" -> "MapGroup"
      [] variant = "Shop" -> "Shop"
      [] variant = "Dispos" -> "DisposArea"

RECURSIVE ElementListsUpTo(_, _)
\* the lists of at most n elements of one type, told apart by an id
ElementListsUpTo(type, n) ==
    IF n = 0 THEN {<<>>}
    ELSE LET shorter == ElementListsUpTo(type, n - 1)
         IN  shorter \cup {Append(list, [type |-> type, id |-> id]) : list \in shorter, id \in 1..2}

FileDataValue(variant, value) == [some |-> TRUE, variant |-> variant, value |-> value]

NoFileData == [some |-> FALSE, variant |-> "", value |-> <<>>]

FileDataValues ==
    UNION {{FileDataValue(variant, value) : value \in ElementListsUpTo(ElementType(variant), MaxElements)} : variant \in Variants}

\* maps that Serialize does not emit: no key, or a key FileDataBuilder does not know
ForeignMaps == {<<>>, <<[key |-> "Other", value |-> <<>>]>>, <<[key |-> "shop", value |-> <<>>]>>}

NoMap == [some |-> FALSE, entries |-> <<>>]

NoBuilder == [some |-> FALSE]

\* FileDataStream::next: the one entry of the map
FileDataStream_next(file_data) == <<[key |-> file_data.variant, value |-> file_data.value]>>

\* Deserialize of Vec<T> from a list: an element that lacks the fields of T is an error
deserialize_vec(value, type) ==
    IF \A i \in 1..Len(value) : value[i].type = type
    THEN [ok |-> TRUE, some |-> TRUE, value |-> value]
    ELSE [ok |-> FALSE, some |-> FALSE, value |-> <<>>]

NoField == [ok |-> TRUE, some |-> FALSE, value |-> <<>>]

\* Place<FileData>::map
FileDataBuilder_new ==
    [some |-> TRUE, maplink |-> NoField, mapid |-> NoField, shop |-> NoField, dispos |-> NoField]

\* FileDataBuilder::key and the value deserialized into the place it returns
FileDataBuilder_key(builder, k, value) ==
    CASE k = "Maplink" -> [builder EXCEPT !.mapid = deserialize_vec(value, "MapGroup")]
      [] k = "MapId" -> [builder EXCEPT !.mapid = deserialize_vec(value, "MapGroup")]
      [] k = "Shop" -> [builder EXCEPT !.shop = deserialize_vec(value, "Shop")]
      [] k = "Dispos" -> [builder EXCEPT !.dispos = deserialize_vec(value, "DisposArea")]
      [] OTHER -> builder

\* a value of the map could not be deserialized
builder_failed(builder) ==
    ~builder.maplink.ok \/ ~builder.mapid.ok \/ ~builder.shop.ok \/ ~builder.dispos.ok

\* FileDataBuilder::finish
FileDataBuilder_finish(builder) ==
    IF builder.maplink.some THEN [ok |-> TRUE, out |-> FileDataValue("Maplink", builder.maplink.value)]
    ELSE IF builder.mapid.some THEN [ok |-> TRUE, out |-> FileDataValue("MapId", builder.mapid.value)]
    ELSE IF builder.shop.some THEN [ok |-> TRUE, out |-> FileDataValue("Shop", builder.shop.value)]
    ELSE IF builder.dispos.some THEN [ok |-> TRUE, out |-> FileDataValue("Dispos", builder.dispos.value)]
    ELSE [ok |-> FALSE, out |-> NoFileData]

\* the call under way: the value given, the map, the builder, the entries handed over
Deserializing(file_data, map, builder, keys) ==
    [data |-> file_data, map |-> map, builder |-> builder, keys |-> keys]

\* a FileData value to serialize, or a foreign map to deserialize
InitSerde ==
    /\ CallsOnly
    /\ \/ \E file_data \in FileDataValues : frames = Deserializing(file_data, NoMap, NoBuilder, 0)
       \/ \E map \in ForeignMaps :
              frames = Deserializing(NoFileData, [some |-> TRUE, entries |-> map], NoBuilder, 0)
    /\ returned = NoReturn

\* Serialize for FileData: the map of FileDataStream
SerializeFileData ==
    /\ pc = "calls"
    /\ frames.data.some
    /\ ~frames.map.some
    /\ frames' = [frames EXCEPT !.map = [some |-> TRUE, entries |-> FileDataStream_next(frames.data)]]
    /\ UNCHANGED <<wvars, reader, read_domain, returned, tvars>>

\* Deserialize for FileData: Place::map makes the builder
BeginMap ==
    /\ pc = "calls"
    /\ frames.map.some
    /\ ~frames.builder.some
    /\ frames' = [frames EXCEPT !.builder = FileDataBuilder_new]
    /\ UNCHANGED <<wvars, reader, read_domain, returned, tvars>>

\* the next entry of the map: key, then its value; a value that fails ends
\* the deserialization with an error
MapKey ==
    /\ pc = "calls"
    /\ frames.builder.some
    /\ frames.keys < Len(frames.map.entries)
    /\ LET entry == frames.map.entries[frames.keys + 1]
           builder == FileDataBuilder_key(frames.builder, entry.key, entry.value)
       IN  /\ frames' = [frames EXCEPT !.builder = builder, !.keys = @ + 1]
           /\ returned' = IF builder_failed(builder) THEN [ok |-> FALSE, out |-> NoFileData] ELSE returned
           /\ pc' = IF builder_failed(builder) THEN "deserialized" ELSE pc
    /\ UNCHANGED <<ctx, domain, ops, outputs, reader, read_domain, tvars>>

\* the end of the map: finish
MapFinish ==
    /\ pc = "calls"
    /\ frames.builder.some
    /\ frames.keys = Len(frames.map.entries)
    /\ returned' = FileDataBuilder_finish(frames.builder)
    /\ pc' = "deserialized"
    /\ UNCHANGED <<ctx, domain, ops, outputs, reader, read_domain, frames, tvars>>

NextSerde ==
    \/ SerializeFileData
    \/ BeginMap
    \/ MapKey
    \/ MapFinish

SpecSerde == InitSerde /\ [][NextSerde]_vars

-----------------------------------------------------------------------------
(* Properties of symbol synthesis                                           *)

\* the k-th 16-byte entry (k from 1) of an emitted .symtab
symtab_entry(bytes, k) ==
    [st_name |-> ReadU32BE(bytes, 16 * (k - 1)),
     st_value |-> ReadU32BE(bytes, 16 * (k - 1) + 4),
     st_size |-> ReadU32BE(bytes, 16 * (k - 1) + 8),
     st_info |-> bytes[16 * (k - 1) + 13],
     st_other |-> bytes[16 * (k - 1) + 14],
     st_shndx |-> ReadU16BE(bytes, 16 * (k - 1) + 14)]

\* the generator after k calls of next, and the tail its k-th call returns
RECURSIVE gen_after(_)
gen_after(k) == IF k = 0 THEN NewNameGen ELSE name_gen_next(gen_after(k - 1)).gen

NthTail(k) == name_gen_next(gen_after(k - 1)).tail

\* a properly extends b
properly_extends(a, b) == Len(a) > Len(b) /\ SubSeq(a, 1, Len(b)) = b

\* the renaming order of the specification: a before b when a properly extends
\* b with a character below 'P' right after the prefix, b before a in the
\* mirrored case, lexicographic otherwise
renamed_before(a, b) ==
    IF properly_extends(a, b) /\ a[Len(b) + 1] < 80 THEN TRUE
    ELSE IF properly_extends(b, a) /\ b[Len(a) + 1] < 80 THEN FALSE
    ELSE StrLess(a, b)

\* the place of declaration i among the InternalNamed declarations in that order
\* (equal names keep their declaration order)
named_rank(decls, i) ==
    1 + Cardinality({j \in 1..Len(decls) :
            /\ decls[j].name.kind = "InternalNamed"
            /\ \/ renamed_before(decls[j].name.s, decls[i].name.s)
               \/ decls[j].name.s = decls[i].name.s /\ j < i})

\* the emitted tables hold a local entry at offset value whose name is name
local_entry_named(table, names, locals, value, name) ==
    \E k \in 4..locals :
        /\ symtab_entry(table, k).st_value = value
        /\ symtab_entry(table, k).st_info = 1
        /\ c_str_at(names, symtab_entry(table, k).st_name) = name

\* declaration i is the only declaration at its resolved offset
alone_at_offset(decls, offsets, i) ==
    \A j \in 1..Len(decls) :
        j # i => resolve(decls[j].offset, offsets) # resolve(decls[i].offset, offsets)

\* the step of write_symtab
symtab_written == pc = "finalized" /\ pc' = "symtab"

internal_count(decls) == Cardinality({i \in 1..Len(decls) : is_internal(decls[i].name)})

global_count(decls) == Len(decls) - internal_count(decls)

\* an entry whose fields are all zero but for st_info
blank_entry(e, info) ==
    /\ e.st_name = 0 /\ e.st_value = 0 /\ e.st_size = 0
    /\ e.st_info = info /\ e.st_other = 0 /\ e.st_shndx = 0

\* C13: the emitted symbol table is, in this order: the null entry; the file
\* entry (st_name 1, info 4, shndx 0xFFF1); the .rodata section entry (info 3,
\* shndx 1); the internal symbols in non-decreasing resolved offset, info 0x01;
\* twelve all-zero entries with info 0x10; the global symbols, info 0x11; and
\* last_local_symbol is 3 plus the number of internal symbols
C13_TableLayout ==
    [][symtab_written =>
        LET decls == domain.symbol_declarations
            ni == internal_count(decls)
            ng == global_count(decls)
            e(k) == symtab_entry(symtab', k)
        IN  /\ Len(symtab') = 16 * (3 + ni + PaddingSymbolCount + ng)
            /\ blank_entry(e(1), 0)
            /\ e(2).st_name = 1 /\ e(2).st_info = 4 /\ e(2).st_shndx = 65521
            /\ e(2).st_value = 0 /\ e(2).st_size = 0
            /\ e(3).st_info = 3 /\ e(3).st_shndx = 1
            /\ \A k \in 4..(3 + ni) : e(k).st_info = 1
            /\ \A k \in 4..(2 + ni) : e(k).st_value <= e(k + 1).st_value
            /\ \A k \in (4 + ni)..(15 + ni) : blank_entry(e(k), 16)
            /\ \A k \in (16 + ni)..(15 + ni + ng) : e(k).st_info = 17
            /\ last_local_symbol' = 3 + ni]_vars

\* a table with two internal symbols at different offsets and one global symbol
C13_Witness ==
    /\ pc = "symtab"
    /\ last_local_symbol = 5
    /\ Len(symtab) = 16 * 18
    /\ symtab_entry(symtab, 4).st_value < symtab_entry(symtab, 5).st_value
    /\ symtab_entry(symtab, 18).st_info = 17

\* the 1-based positions of the entries write_symbol emitted: the internal
\* symbols after the three leading entries, the globals after the padding
written_positions(ni, ng) == (4..(3 + ni)) \cup ((4 + ni + PaddingSymbolCount)..(3 + ni + PaddingSymbolCount + ng))

\* the zero-based position of the last written entry whose st_value is value
final_index(table, ni, ng, value) ==
    LET at == {k \in written_positions(ni, ng) : symtab_entry(table, k).st_value = value}
    IN  (CHOOSE k \in at : \A other \in at : other <= k) - 1

\* the bytes the names of the renamed declarations take in .strtab
names_size(renamed) ==
    LET f[k \in 0..Len(renamed)] ==
            IF k = 0 THEN 0
            ELSE LET prev == f[k - 1]
                 IN  prev + (IF has_str(renamed[k].name) THEN Len(renamed[k].name.s) + 1 ELSE 0)
    IN  f[Len(renamed)]

\* C14 as stated: for every symbol written by write_symtab, internal or global,
\* the index recorded in symbol_indices under its resolved offset is the
\* zero-based position of its entry in the emitted .symtab (of the last written
\* one when several share the offset); a symbol named None adds no bytes to
\* .strtab and has st_name 0
C14_RecordedIndexIsFinal ==
    [][symtab_written =>
        LET decls == domain.symbol_declarations
            ni == internal_count(decls)
            ng == global_count(decls)
            globals == extract_named(decls)
        IN  /\ \A i \in 1..Len(decls) :
                   LET value == resolve(decls[i].offset, block_offsets)
                   IN  /\ value \in DOMAIN symbol_indices'
                       /\ symbol_indices'[value] = final_index(symtab', ni, ng, value)
            /\ Len(strtab') = Len(initial_strtab(CppFileName)) + names_size(rename_symbols(decls))
            /\ \A g \in 1..ng :
                   globals[g].name = SymNone
                   => symtab_entry(symtab', 3 + ni + PaddingSymbolCount + g).st_name = 0]_vars

\* C20: write_symtab renames the InternalNamed declarations in the order
\* renamed_before (a before b when a properly extends b with a character below
\* 'P' after the prefix, b before a in the mirrored case, lexicographic
\* otherwise), and the k-th declaration in that order gets its name's first
\* character followed by the k-th tail of one generator shared by all of them
C20_RenamingOrder ==
    [][symtab_written =>
        LET decls == domain.symbol_declarations
        IN  \A i \in 1..Len(decls) :
                decls[i].name.kind = "InternalNamed"
                => local_entry_named(symtab', strtab', last_local_symbol',
                                     resolve(decls[i].offset, block_offsets),
                                     <<decls[i].name.s[1]>> \o NthTail(named_rank(decls, i)))]_vars

\* write_symtab has renamed three declarations, one of them starting with
\* another character: the tails "", "b" and "c" were handed out across both
\* initial characters, "n" being renamed last to "nc"
C20_Witness ==
    /\ pc = "symtab"
    /\ last_local_symbol = 6
    /\ \E k \in 4..6 : c_str_at(strtab, symtab_entry(symtab, k).st_name) = <<109>>
    /\ \E k \in 4..6 : c_str_at(strtab, symtab_entry(symtab, k).st_name) = <<109, 98>>
    /\ \E k \in 4..6 : c_str_at(strtab, symtab_entry(symtab, k).st_name) = <<110, 99>>

-----------------------------------------------------------------------------
(* Properties of write_string                                               *)

\* a write_string call on the root block is the step being taken
string_written == pc = "serialize" /\ Len(ops') = Len(ops) + 1 /\ Last(ops').op = "write_string"

\* that call missed: it allocated a new string block
string_missed == Len(ctx'.blocks) = Len(ctx.blocks) + 1

\* C19: on a write_string miss the new block's alignment is 4 when the previous
\* string was longer than 2 bytes or this string is longer than 1 byte, else 0;
\* prev_string_len becomes this string's length only on a miss with deduplicate
\* enabled, and is unchanged by a dedup hit and by a write without deduplicate
C19_StringAlignment ==
    [][string_written =>
        LET value == Last(ops').value.v
            deduplicate == Last(ops').deduplicate
        IN  /\ string_missed \/ (Len(ctx'.blocks) = Len(ctx.blocks) /\ deduplicate)
            /\ string_missed
               => Last(ctx'.blocks).align =
                      (IF domain.prev_string_len > 2 \/ Len(value) > 1 THEN 4 ELSE 0)
            /\ domain'.prev_string_len =
                   (IF string_missed /\ deduplicate THEN Len(value)
                    ELSE domain.prev_string_len)]_vars

\* a one-byte string was written into a block of alignment 4 after a longer
\* deduplicated one, and a write without deduplicate left prev_string_len alone
C19_Witness ==
    /\ pc = "serialize"
    /\ Len(ops) = 2
    /\ ops[1] = OpString(<<97, 98, 99>>, TRUE)
    /\ ops[2] = OpString(<<97>>, FALSE)
    /\ Len(ctx.blocks) = 3
    /\ Last(ctx.blocks).align = 4
    /\ domain.prev_string_len = 3

-----------------------------------------------------------------------------
(* Properties of the pointer reads                                          *)

\* the word in the slot, whether it has a relocation, and the symbol index of it
slot_value == ReadU32BE(read_domain.rodata_section, 0)

slot_relocated == 0 \in DOMAIN read_domain.relocations

slot_symbol_index == read_domain.relocations[0].info \div 256

\* the number of entries of the parsed .symtab, in file order
symtab_entries == Len(symtab) \div 16

\* C15 as stated: for a zero-valued slot with a relocation r, read_pointer
\* returns the st_value of the entry of .symtab whose index, counting every
\* entry in file order (empty and repeated names included), is r.info >> 8
C15_SymbolByFileIndex ==
    (/\ pc = "returned"
     /\ returned.fn \in {"read_pointer", "read_pointer_optional"}
     /\ slot_value = 0
     /\ slot_relocated
     /\ slot_symbol_index < symtab_entries)
    => /\ returned.ok
       /\ returned.some
       /\ returned.value = symtab_entry(symtab, slot_symbol_index + 1).st_value

\* C16: for a zero slot without relocation read_pointer_optional returns nil
\* without error, read_pointer and read_string return an error; all three
\* return an error when the slot's word is non-zero and when the relocation's
\* symbol index is out of range of the symbol table; an error carries no value
C16_ErrorOutcomes ==
    pc = "returned"
    => /\ (slot_value = 0 /\ ~slot_relocated)
          => IF returned.fn = "read_pointer_optional"
             THEN returned.ok /\ ~returned.some
             ELSE ~returned.ok
       /\ slot_value # 0 => ~returned.ok
       /\ (slot_relocated /\ slot_symbol_index >= symtab_entries) => ~returned.ok
       /\ ~returned.ok
          => /\ ~returned.some
             /\ returned.value = (IF returned.fn = "read_string" THEN <<>> ELSE 0)

\* read_pointer has failed on a zero slot that has no relocation
C16_Witness ==
    /\ pc = "returned"
    /\ returned.fn = "read_pointer"
    /\ slot_value = 0
    /\ ~slot_relocated
    /\ ~returned.ok
    /\ symtab_entries = 3

-----------------------------------------------------------------------------
(* Properties of the debug sections                                         *)

\* the production container for the records: the rewritten file parsed
production_elf == from_reader(final_elf_bytes.bytes).container

\* the relocations of the production .rodata, by slot offset
production_relocations == get_section(production_elf, RodataName).value.relocations.map

\* byte i (from 1) of content lies in the relocated slot at offset
in_slot(i, offset) == offset < i /\ i <= offset + 4

\* the four bytes of (st_value of the relocation's symbol | 0x70000000), the
\* symbol being the entry of table with the relocation's index
debug_word(table, relocation) ==
    U32BE(BitOr32(symtab_entry(table, relocation.info \div 256 + 1).st_value, 1879048192))

\* debug is production with every relocated slot replaced by its debug word
patched(debug, production, relocations, table) ==
    /\ Len(debug) = Len(production)
    /\ \A i \in 1..Len(production) :
           IF \E offset \in DOMAIN relocations : in_slot(i, offset)
           THEN LET offset == CHOOSE o \in DOMAIN relocations : in_slot(i, o)
                IN  debug[i] = debug_word(table, relocations[offset])[i - offset]
           ELSE debug[i] = production[i]

\* C17: for the same records, the debug-mode .rodata is the production-mode
\* .rodata with each relocated 4-byte slot replaced by (st_value of the
\* relocation's symbol | 0x70000000) and all other bytes unchanged, every
\* debug-mode section equals link_section_debug of the production section, and
\* .symtab, .strtab, .shstrtab and .rela.rodata are byte-identical in both modes
C17_DebugSections ==
    /\ pc # "mismatch"
    /\ (pc \in {"rewritten", "reread"} /\ final_elf_bytes.ok)
       => /\ patched(result_buffer, section_content(production_elf, RodataName),
                     production_relocations, section_content(production_elf, SymtabName))
          /\ symtab = section_content(production_elf, SymtabName)
          /\ strtab = section_content(production_elf, StrtabName)
          /\ rela_rodata = section_content(production_elf, RelaPrefix \o RodataName)
          /\ section_content(reassemble_elf_container(data.shops, TRUE).container, ShstrtabName)
                 = section_content(production_elf, ShstrtabName)

\* the sections were compared for records with at least three pointer slots:
\* the debug .rodata differs from the production one in a relocated slot
C17_Witness ==
    /\ pc = "rewritten"
    /\ final_elf_bytes.ok
    /\ Len(rela_rodata) >= 36
    /\ result_buffer # section_content(production_elf, RodataName)
    /\ \E offset \in DOMAIN production_relocations :
           result_buffer[offset + 1] = 112

-----------------------------------------------------------------------------
(* Properties of ElfContainer::from_reader                                  *)

\* the section header string table of a file: the content of section header 3
file_shstrtab(file) ==
    SubSeq(file, ReadU32BE(file, sh_field_offset(file, 3, 16)) + 1,
           ReadU32BE(file, sh_field_offset(file, 3, 16)) + ReadU32BE(file, sh_field_offset(file, 3, 20)))

\* the name and the content of section header k (from 0) of a file
file_section_name(file, k) ==
    c_str_at(file_shstrtab(file), ReadU32BE(file, sh_field_offset(file, k, 0)))

file_section_content(file, k) ==
    SubSeq(file, ReadU32BE(file, sh_field_offset(file, k, 16)) + 1,
           ReadU32BE(file, sh_field_offset(file, k, 16)) + ReadU32BE(file, sh_field_offset(file, k, 20)))

\* the section headers of a file, from 0
file_sections(file) == 0..(ReadU16BE(file, 48) - 1)

\* section header k is named ".rela<X>"
names_relocations(file, k) == starts_with(file_section_name(file, k), RelaPrefix)

\* X of a section named ".rela<X>"
relocated_name(file, k) ==
    SubSeq(file_section_name(file, k), Len(RelaPrefix) + 1, Len(file_section_name(file, k)))

\* section header j is loaded as a content section
is_content_section(file, j) ==
    /\ ~names_relocations(file, j)
    /\ file_section_name(file, j) \notin {StrtabName, SymtabName, ShstrtabName}

\* the file has a section named name
has_section(file, name) == \E k \in file_sections(file) : file_section_name(file, k) = name

\* a section ".rela<X>" comes without a content section X before it
dangling_relocations(file) ==
    \E k \in file_sections(file) :
        /\ names_relocations(file, k)
        /\ ~\E j \in file_sections(file) :
               j < k /\ is_content_section(file, j)
                     /\ file_section_name(file, j) = relocated_name(file, k)

\* the relocations of content, keyed by offset, are what attached holds
attached_by_offset(attached, content) ==
    /\ attached.some
    /\ DOMAIN attached.map = {ReadU32BE(content, 12 * (i - 1)) : i \in 1..(Len(content) \div 12)}
    /\ \A i \in 1..(Len(content) \div 12) :
           (\A later \in (i + 1)..(Len(content) \div 12) :
                ReadU32BE(content, 12 * (later - 1)) # ReadU32BE(content, 12 * (i - 1)))
           => attached.map[ReadU32BE(content, 12 * (i - 1))]
                  = Relocation(ReadU32BE(content, 12 * (i - 1)),
                               ReadU32BE(content, 12 * (i - 1) + 4),
                               ReadU32BE(content, 12 * (i - 1) + 8))

\* from_reader failed where it must: no .strtab, no .symtab, or a .rela<X>
\* without a content section X loaded before it; an error leaves no container
reader_failures ==
    /\ (~has_section(input_file, StrtabName) \/ ~has_section(input_file, SymtabName)
            \/ dangling_relocations(input_file))
       => ~elf_file.ok
    /\ ~elf_file.ok => elf_file = NoContainer

\* C18 as stated: from_reader returns an error and no container when the input
\* has no section named .strtab or none named .symtab, and when a section
\* .rela<X> appears without a previously loaded content section X; on success
\* every .rela<X> meta section has its relocations attached to content section
\* X, keyed by relocation offset
C18_RelocationsAttached ==
    pc \in {"parsed", "direct"}
    => /\ reader_failures
       /\ elf_file.ok
          => \A i \in 1..Len(elf_file.container.meta_sections) :
                 LET section == elf_file.container.meta_sections[i]
                     original_section ==
                         indexmap_get(elf_file.container.content_sections,
                                      SubSeq(section.name, Len(RelaPrefix) + 1, Len(section.name)))
                 IN  starts_with(section.name, RelaPrefix)
                     => /\ original_section.some
                        /\ attached_by_offset(original_section.value.relocations,
                                              section.content)

\* the place of the Internal declaration i among the declarations with its
\* initial character, in increasing resolved offset (equal offsets keep their
\* declaration order)
unnamed_rank(decls, offsets, i) ==
    1 + Cardinality({j \in 1..Len(decls) :
            /\ decls[j].name.kind = "Internal"
            /\ decls[j].name.ch = decls[i].name.ch
            /\ \/ resolve(decls[j].offset, offsets) < resolve(decls[i].offset, offsets)
               \/ /\ resolve(decls[j].offset, offsets) = resolve(decls[i].offset, offsets)
                  /\ j < i})

\* the lowest resolved offset among the Internal declarations with initial ch
lowest_offset(decls, offsets, ch) ==
    LET at == {resolve(decls[j].offset, offsets) :
                  j \in {k \in 1..Len(decls) : decls[k].name = Internal(ch)}}
    IN  CHOOSE o \in at : \A other \in at : o <= other

\* C21: the Internal(c) declarations are named per initial character in
\* increasing resolved offset, the generator restarting with each character:
\* the k-th declaration of character c gets c followed by the k-th tail, so
\* the entry at the lowest offset of each character is named exactly c
C21_UnnamedNaming ==
    [][symtab_written =>
        LET decls == domain.symbol_declarations
        IN  \A i \in 1..Len(decls) :
                decls[i].name.kind = "Internal"
                => /\ local_entry_named(symtab', strtab', last_local_symbol',
                                        resolve(decls[i].offset, block_offsets),
                                        <<decls[i].name.ch>>
                                            \o NthTail(unnamed_rank(decls, block_offsets, i)))
                   /\ local_entry_named(symtab', strtab', last_local_symbol',
                                        lowest_offset(decls, block_offsets, decls[i].name.ch),
                                        <<decls[i].name.ch>>)]_vars

\* two 's' declarations and an 'l' declaration were named: "s" at offset 0,
\* "sb" at offset 8, and "l" although it was named after an 's'
C21_Witness ==
    /\ pc = "symtab"
    /\ last_local_symbol = 6
    /\ \E k \in 4..6 : /\ c_str_at(strtab, symtab_entry(symtab, k).st_name) = <<115>>
                       /\ symtab_entry(symtab, k).st_value = 0
    /\ \E k \in 4..6 : /\ c_str_at(strtab, symtab_entry(symtab, k).st_name) = <<115, 98>>
                       /\ symtab_entry(symtab, k).st_value = 8
    /\ \E k \in 4..6 : c_str_at(strtab, symtab_entry(symtab, k).st_name) = <<108>>

-----------------------------------------------------------------------------
(* Properties of ElfContainer::to_bytes                                     *)

\* the sections in the order the file holds their contents
emitted_sections(container) ==
    container.content_sections
        \o SelectSeq(container.meta_sections, LAMBDA sec : ~starts_with(sec.name, RelaPrefix))
        \o SelectSeq(container.meta_sections, LAMBDA sec : starts_with(sec.name, RelaPrefix))

\* the least multiple of align that is not below pos
next_multiple(pos, align) ==
    IF align <= 1 THEN pos ELSE CHOOSE p \in pos..(pos + align - 1) : p % align = 0

RECURSIVE emitted_end(_, _)
\* the file offset at which the content of the k-th emitted section starts
emitted_at(sections, k) ==
    next_multiple(emitted_end(sections, k - 1), sections[k].header.sh_addralign)

\* the file offset after the content of the k-th emitted section; the header is 52 bytes
emitted_end(sections, k) ==
    IF k = 0 THEN 52 ELSE emitted_at(sections, k) + Len(sections[k].content)

\* to_bytes has returned the file of the container in elf_file
serialized == pc = "direct" /\ out_elf.ok

\* C22: the file to_bytes returns holds the header, then the content of every
\* content section, of every meta section that is not a .rela section and of
\* every .rela section, in this order and each starting at the next multiple
\* of its sh_addralign; the section header table (which begins with the null
\* header) starts where the last content ends, e_shoff holds that offset, and
\* every other byte of the header is the byte of the header as given.
C22_EmissionOrder ==
    serialized =>
        LET file == out_elf.bytes
            sections == emitted_sections(elf_file.container)
            given == ElfHeader_write(elf_file.container.header)
            table == emitted_end(sections, Len(sections))
        IN  /\ \A k \in 1..Len(sections) :
                  SubSeq(file, emitted_at(sections, k) + 1, emitted_end(sections, k))
                      = sections[k].content
            /\ Len(file) >= table + 40
            /\ SubSeq(file, table + 1, table + 40) = Zeros(40)
            /\ ReadU32BE(file, offset_of_e_shoff) = table
            /\ \A i \in 1..52 : (i <= offset_of_e_shoff \/ i > offset_of_e_shoff + 4) => file[i] = given[i]

\* a .rodata section aligned to 16 starts after padding, its .rela.rodata
\* section has an entry, and .strtab was added before .shstrtab
C22_Witness ==
    /\ serialized
    /\ LET sections == emitted_sections(elf_file.container)
       IN  /\ Len(sections) = 6
           /\ sections[2].name = RodataName
           /\ sections[2].header.sh_addralign = 16
           /\ emitted_at(sections, 2) = 64
           /\ sections[3].name = StrtabName
           /\ sections[6].name = RelaPrefix \o RodataName
           /\ Len(sections[6].content) = 12
           /\ emitted_at(sections, 6) > emitted_end(sections, 5)

\* the sections in the order to_bytes writes their headers after the null header
header_sections(container) ==
    LET cs == container.content_sections
        f[i \in 0..Len(cs)] ==
            IF i = 0 THEN <<>>
            ELSE LET prev == f[i - 1]
                     rela == indexmap_get(container.meta_sections, RelaPrefix \o cs[i].name)
                 IN  IF cs[i].name = <<>> THEN prev
                     ELSE IF rela.some THEN prev \o <<cs[i], rela.value>>
                     ELSE Append(prev, cs[i])
    IN  f[Len(cs)] \o <<indexmap_get(container.meta_sections, ShstrtabName).value,
                        indexmap_get(container.meta_sections, SymtabName).value,
                        indexmap_get(container.meta_sections, StrtabName).value>>

RECURSIVE header_end(_, _, _)
\* the file offset after the k-th header written behind the null header at table
header_end(sections, table, k) ==
    IF k = 0 THEN table + 40
    ELSE next_multiple(header_end(sections, table, k - 1), sections[k].header.sh_addralign) + 40

\* the header to_bytes wrote for the k-th of header_sections
emitted_header(file, container, k) ==
    LET emitted == emitted_sections(container)
        table == emitted_end(emitted, Len(emitted))
    IN  SectionHeader_read(file, header_end(header_sections(container), table, k) - 40)

\* the file offset of the content of the section of that name
content_offset(container, name) ==
    LET emitted == emitted_sections(container)
    IN  emitted_at(emitted, CHOOSE k \in 1..Len(emitted) : emitted[k].name = name)

\* C23: in every header to_bytes writes, sh_name is the offset of an occurrence
\* of the section's name in the .shstrtab content and the NUL-terminated string
\* there is the name, sh_offset is the file offset of the section's content,
\* sh_size is the content's length, and the seven other fields are those of
\* the in-memory header.
C23_HeaderFields ==
    serialized =>
        LET container == elf_file.container
            sections == header_sections(container)
            shstrtab == indexmap_get(container.meta_sections, ShstrtabName).value.content
        IN  \A k \in 1..Len(sections) :
                LET read == emitted_header(out_elf.bytes, container, k)
                    given == sections[k].header
                    name == sections[k].name
                IN  /\ read.ok
                    /\ SubSeq(shstrtab, read.header.sh_name + 1, read.header.sh_name + Len(name)) = name
                    /\ c_str_at(shstrtab, read.header.sh_name) = name
                    /\ read.header.sh_offset = content_offset(container, name)
                    /\ read.header.sh_size = Len(sections[k].content)
                    /\ read.header.sh_type = given.sh_type
                    /\ read.header.sh_flags = given.sh_flags
                    /\ read.header.sh_addr = given.sh_addr
                    /\ read.header.sh_link = given.sh_link
                    /\ read.header.sh_info = given.sh_info
                    /\ read.header.sh_addralign = given.sh_addralign
                    /\ read.header.sh_entsize = given.sh_entsize

\* five headers follow the null header; .rodata is named by the tail of
\* ".rela.rodata" at offset 32 and its content of 8 bytes,
\* aligned to 16, starts at 64
C23_Witness ==
    /\ serialized
    /\ Len(header_sections(elf_file.container)) = 5
    /\ emitted_header(out_elf.bytes, elf_file.container, 1).header.sh_name = 32
    /\ emitted_header(out_elf.bytes, elf_file.container, 1).header.sh_offset = 64
    /\ emitted_header(out_elf.bytes, elf_file.container, 1).header.sh_size = 8
    /\ emitted_header(out_elf.bytes, elf_file.container, 2).header.sh_size = 12
    /\ emitted_header(out_elf.bytes, elf_file.container, 2).header.sh_link = 4

\* C28 as stated: the section header table of the file to_bytes returns is an
\* array of 40-byte entries that starts at e_shoff: the k-th header after the
\* null header stands at e_shoff + 40 * k and the file ends with the last
\* entry, whatever the content lengths and sh_addralign values of the sections
C28_ContiguousTable ==
    serialized =>
        LET sections == header_sections(elf_file.container)
            table == ReadU32BE(out_elf.bytes, offset_of_e_shoff)
        IN  /\ \A k \in 1..Len(sections) : header_end(sections, table, k) - 40 = table + 40 * k
            /\ Len(out_elf.bytes) = table + 40 * (1 + Len(sections))

\* some section header of the file has that name
file_names(file, name) == \E k \in file_sections(file) : file_section_name(file, k) = name

\* the index of the section header of that name
file_section_index(file, name) ==
    CHOOSE k \in file_sections(file) : file_section_name(file, k) = name

\* sh_link and sh_info of the section header of that name
file_sh_link(file, name) == ReadU32BE(file, sh_field_offset(file, file_section_index(file, name), 24))

file_sh_info(file, name) == ReadU32BE(file, sh_field_offset(file, file_section_index(file, name), 28))

\* the numbers written into the header and the link fields are the indexes
\* the section header table of the file has
links_agree(file) ==
    /\ ReadU16BE(file, 48) = 6
    /\ Len(file) = ReadU32BE(file, offset_of_e_shoff) + 6 * 40
    /\ ReadU16BE(file, 50) = 3
    /\ file_section_name(file, 3) = ShstrtabName
    /\ \A name \in {RodataName, RelaPrefix \o RodataName, SymtabName, StrtabName} : file_names(file, name)
    /\ file_sh_link(file, RelaPrefix \o RodataName) = 4
    /\ file_section_index(file, SymtabName) = 4
    /\ file_sh_info(file, RelaPrefix \o RodataName) = 1
    /\ file_section_index(file, RodataName) = 1
    /\ file_sh_link(file, SymtabName) = 5
    /\ file_section_index(file, StrtabName) = 5

\* C29: in every file built by reassemble_elf_container and to_bytes (the
\* sample and the file rebuilt from the content read) the table has exactly
\* e_shnum = 6 entries, entry e_shstrndx = 3 is .shstrtab, the sh_link 4 of
\* .rela.rodata is the index of .symtab, its sh_info 1 the index of .rodata,
\* and the sh_link 5 of .symtab is the index of .strtab.
C29_LinksAgree ==
    /\ links_agree(input_file)
    /\ pc = "rewritten" => final_elf_bytes.ok /\ links_agree(final_elf_bytes.bytes)

\* a file rebuilt from two shops read back
C29_Witness ==
    /\ pc = "rewritten"
    /\ final_elf_bytes.ok
    /\ Len(data.shops) = 2
    /\ Len(file_section_content(final_elf_bytes.bytes, 2)) > 0

-----------------------------------------------------------------------------
(* Properties of write_slice                                                *)

\* this step is a write_slice call on the root block
slice_written == ops' # ops /\ ops'[Len(ops')].op = "write_slice"

\* what the pointer word at offset pos of a block points at: the token of the
\* only reference recorded there
pointee(c, block, pos) ==
    c.refs[CHOOSE i \in 1..Len(c.refs) : c.refs[i].block = block /\ c.refs[i].pos = pos].token

\* the j-th element was written at word j of the element block: a string
\* element left a pointer to its characters, a box a pointer to its body
element_at(c, block, j, element) ==
    LET target == pointee(c, block, 4 * (j - 1))
    IN  /\ \E i \in 1..Len(c.refs) : c.refs[i].block = block /\ c.refs[i].pos = 4 * (j - 1)
        /\ target.offset = 0
        /\ element[1].op = "write_string" => c.blocks[target.block].bytes = element[1].value.v \o <<0>>
        /\ element[1].op = "write_box" => c.blocks[target.block].bytes = U32BE(element[1].content[1][1].v)

\* C24: a write_slice call allocates the element block, aligned to 4, before
\* any block of an element and writes the elements into it one after the
\* other; the token of the block is written in the parent after that (its
\* reference is the last one recorded), the count follows the token directly,
\* and the symbol declaration, when a name is given, is recorded after the
\* declarations of the elements with the bytes of the element block as size.
C24_SliceOrder ==
    [][slice_written =>
        LET o == ops'[Len(ops')]
            block == Len(ctx.blocks) + 1
            parent == current_block(ctx)
            token == HeapToken(block, 0)
            declared == domain'.symbol_declarations
        IN  /\ Len(ctx'.blocks) >= block
            /\ ctx'.blocks[block].align = 4
            /\ Len(ctx'.blocks[block].bytes) = 4 * Len(o.content)
            /\ \A j \in 1..Len(o.content) : element_at(ctx', block, j, o.content[j])
            /\ \A j \in 1..Len(o.content) : pointee(ctx', block, 4 * (j - 1)).block # block
            /\ ctx'.blocks[parent].bytes
                   = ctx.blocks[parent].bytes \o Zeros(4) \o U32BE(Len(o.content))
            /\ Len(ctx'.refs) > Len(ctx.refs)
            /\ ctx'.refs[Len(ctx'.refs)]
                   = [block |-> parent, pos |-> Len(ctx.blocks[parent].bytes), token |-> token]
            /\ SubSeq(declared, 1, Len(domain.symbol_declarations)) = domain.symbol_declarations
            /\ o.name # NoName =>
                   /\ Len(declared) > Len(domain.symbol_declarations)
                   /\ declared[Len(declared)]
                          = SymbolDeclaration(o.name, token, Len(ctx'.blocks[block].bytes))
                   /\ \A i \in 1..(Len(declared) - 1) : declared[i].offset # token
            /\ o.name = NoName => \A i \in 1..Len(declared) : declared[i].offset # token
    ]_vars

\* a named slice of a named box and a string was written after another call:
\* the box's declaration precedes the slice's, whose size is 8
C24_Witness ==
    /\ Len(ops) = 2
    /\ ops[2].op = "write_slice"
    /\ ops[2].name # NoName
    /\ Len(ops[2].content) = 2
    /\ ops[2].content[1][1].op = "write_box"
    /\ Len(ctx.blocks[1].bytes) > 8
    /\ Len(domain.symbol_declarations) >= 2
    /\ domain.symbol_declarations[Len(domain.symbol_declarations)].size = 8
    /\ domain.symbol_declarations[Len(domain.symbol_declarations) - 1].name = Internal(115)

-----------------------------------------------------------------------------
(* Properties of the finalized heap                                         *)

\* byte i (from 1) of block k is part of a pointer word
in_pointer_word(c, k, i) ==
    \E r \in 1..Len(c.refs) : c.refs[r].block = k /\ in_slot(i, c.refs[r].pos)

\* C25: after to_buffer the blocks lie in the buffer in the order of their
\* allocation, in disjoint ranges, each at the first multiple of its alignment
\* after the block before it, the gaps are zero bytes and the buffer ends with
\* the last block; the bytes of a block are the bytes of its range (pointer
\* words excepted when debug relocations are applied); every token written
\* has its relocation, from block base + position of the word to block base +
\* offset of the token, both inside the buffer.
C25_FinalLayout ==
    pc = "finalized" =>
        LET blocks == ctx.blocks
            n == Len(blocks)
            base == block_offsets
            end(k) == base[k] + Len(blocks[k].bytes)
        IN  /\ Len(base) = n
            /\ base[1] = 0
            /\ Len(result_buffer) = end(n)
            /\ \A k \in 2..n :
                  /\ base[k] >= end(k - 1)
                  /\ blocks[k].align > 1 => base[k] % blocks[k].align = 0
                  /\ base[k] - end(k - 1) < IF blocks[k].align > 1 THEN blocks[k].align ELSE 1
                  /\ \A i \in (end(k - 1) + 1)..base[k] : result_buffer[i] = 0
            /\ \A k \in 1..n : \A i \in 1..Len(blocks[k].bytes) :
                  (domain.apply_debug_relocations /\ in_pointer_word(ctx, k, i))
                      \/ result_buffer[base[k] + i] = blocks[k].bytes[i]
            /\ Len(domain.relocations) = Len(ctx.refs)
            /\ \A r \in 1..Len(ctx.refs) :
                  LET ref == ctx.refs[r]
                  IN  /\ domain.relocations[r]
                             = RelDeclaration(base[ref.block] + ref.pos,
                                              base[ref.token.block] + ref.token.offset)
                      /\ base[ref.block] + ref.pos + 4 <= Len(result_buffer)
                      /\ base[ref.token.block] + ref.token.offset <= Len(result_buffer)

\* a two-byte string block is followed by a block aligned to 4: there is
\* padding between them, and a token points at the later block
C25_Witness ==
    /\ pc = "finalized"
    /\ ~domain.apply_debug_relocations
    /\ \E k \in 2..Len(ctx.blocks) :
          /\ block_offsets[k] > block_offsets[k - 1] + Len(ctx.blocks[k - 1].bytes)
          /\ ctx.blocks[k].align = 4
          /\ \E r \in 1..Len(ctx.refs) : ctx.refs[r].token.block = k

-----------------------------------------------------------------------------
(* Properties of SymbolNameGenerator                                        *)

\* the place of a character in AUTO_SYMBOL_NAME_CHARS, from 1
char_index(ch) == CHOOSE i \in 1..AUTO_SYMBOL_NAME_CHAR_COUNT : AUTO_SYMBOL_NAME_CHARS[i] = ch

\* a precedes b: a is shorter, or as long and first in the order of the
\* alphabet at the first place they differ; a strict order on tails
tail_before(a, b) ==
    \/ Len(a) < Len(b)
    \/ /\ Len(a) = Len(b)
       /\ \E i \in 1..Len(a) :
             /\ SubSeq(a, 1, i - 1) = SubSeq(b, 1, i - 1)
             /\ char_index(a[i]) < char_index(b[i])

\* C26: the first call of next on a fresh generator returns "", calls 2 to 93
\* return the one-character tails "b", "c", ... to the last character of the
\* alphabet, call 94 returns "ba"; every later tail comes after the one before
\* it in the strict order tail_before, so the tails of any number of calls are
\* pairwise distinct; a tail that is not empty never begins with 'a'.
C26_TailsDistinct ==
    [][LET n == returned'.calls
           tail == returned'.tail
       IN  /\ n = 1 => tail = <<>>
           /\ n \in 2..AUTO_SYMBOL_NAME_CHAR_COUNT => tail = <<AUTO_SYMBOL_NAME_CHARS[n]>>
           /\ n = AUTO_SYMBOL_NAME_CHAR_COUNT + 1 => tail = <<98, 97>>
           /\ n > 1 => tail_before(returned.tail, tail)
           /\ \A i \in 1..Len(tail) : tail[i] \in {AUTO_SYMBOL_NAME_CHARS[j] : j \in 1..AUTO_SYMBOL_NAME_CHAR_COUNT}
           /\ tail # <<>> => tail[1] # 97
    ]_vars

\* every two-character tail has been returned and the first of three
\* characters, "baa", follows
C26_Witness ==
    /\ pc = "calls"
    /\ returned.calls = 92 + 92 * 93 + 2
    /\ returned.tail = <<98, 97, 97>>

-----------------------------------------------------------------------------
(* Properties of the InternalNamed comparator                               *)

\* Ordering::reverse
reverse(ordering) ==
    IF ordering = "Less" THEN "Greater" ELSE IF ordering = "Greater" THEN "Less" ELSE "Equal"

\* the orders in which three declarations can be given
Orders == {p \in [1..3 -> 1..3] : \A i, j \in 1..3 : i # j => p[i] # p[j]}

\* C27: for all names a, b, c the comparator gives cmp(a, b) = reverse of
\* cmp(b, a), Equal only for a = b, and Less for (a, c) whenever it gives Less
\* for (a, b) and (b, c); sorting three distinct names gives the same
\* sequence whatever order they are given in.
C27_StrictTotalOrder ==
    pc = "compared" =>
        /\ \A i, j \in 1..3 :
              /\ returned.cmp[i][j] = reverse(returned.cmp[j][i])
              /\ returned.cmp[i][j] = "Equal" <=> frames[i] = frames[j]
        /\ \A i, j, k \in 1..3 :
              returned.cmp[i][j] = "Less" /\ returned.cmp[j][k] = "Less"
                  => returned.cmp[i][k] = "Less"
        /\ (\A i, j \in 1..3 : i # j => frames[i] # frames[j]) =>
              \A p \in Orders :
                  SortBy([i \in 1..3 |-> frames[p[i]]], LAMBDA a, b : named_cmp(a, b) = "Less")
                      = returned.sorted

\* "O", "OO", "OP": the extension by 'O' sorts before "O", the one by 'P' after
C27_Witness ==
    /\ pc = "compared"
    /\ frames = << <<79>>, <<79, 79>>, <<79, 80>> >>
    /\ returned.cmp[2][1] = "Less"
    /\ returned.cmp[1][3] = "Less"
    /\ returned.sorted = << <<79, 79>>, <<79>>, <<79, 80>> >>

-----------------------------------------------------------------------------
(* Properties of Serialize and Deserialize for FileData                     *)

\* C30 as stated: deserializing the map Serialize emits for a FileData value
\* gives the value back, in the same variant, for each of Maplink, MapId,
\* Shop and Dispos; a map with none of the four keys is rejected
C30_SameVariant ==
    pc = "deserialized" =>
        /\ frames.data.some => returned.ok /\ returned.out = frames.data
        /\ (\A i \in 1..Len(frames.map.entries) : frames.map.entries[i].key \notin Variants)
               => ~returned.ok

\* what does hold: MapId, Shop and Dispos values come back as they were, a
\* map with none of the four keys is rejected, and no map gives a Maplink
other_variants_round_trip ==
    pc = "deserialized" =>
        /\ (frames.data.some /\ frames.data.variant # "Maplink")
               => returned.ok /\ returned.out = frames.data
        /\ (\A i \in 1..Len(frames.map.entries) : frames.map.entries[i].key \notin Variants)
               => ~returned.ok
        /\ returned.ok => returned.out.variant # "Maplink"

=============================================================================
